---------------------------- MODULE Spec2Model ----------------------------
(***************************************************************************)
(* Delta-state CRDT substrate: Dot, DotContext, DotKernel, DeltaHelpers    *)
(* and the multi-value register MVReg.                                     *)
(*                                                                         *)
(* JavaScript strings are sequences of UTF-16 code units, so a string is   *)
(* modelled as a sequence of naturals.  Map keys and Set members of the    *)
(* program are the strings "id:counter"; they are kept as such strings     *)
(* here, and every comparison is made as the code makes it: by code units  *)
(* for the operator <, through parsing and localeCompare for Dot.compare.  *)
(*                                                                         *)
(* A local of the code that is read more than once is a parameter of a     *)
(* helper operator (named ...With, ...Step, ...From) rather than a LET.    *)
(***************************************************************************)
EXTENDS Integers, Sequences, FiniteSets, TLC

VARIABLES kernels, ctxs, last, regs, deltas, applied, warm, opIn, opOut

vars == <<kernels, ctxs, last, regs, deltas, applied, warm, opIn, opOut>>

(***************************************************************************)
(* Strings                                                                 *)
(***************************************************************************)
\* The code unit of ':'.
Colon == 58

\* The code unit of '0'.
Zero == 48

RECURSIVE Digits(_)
\* Number-to-string conversion of a non-negative integer (template literal).
Digits(n) ==
  IF n < 10 THEN <<Zero + n>>
  ELSE Append(Digits(n \div 10), Zero + (n % 10))

IsDigit(c) == c >= Zero /\ c <= Zero + 9

RECURSIVE StrLess(_, _)
\* The operator < of two strings: lexicographic by code unit, a proper
\* prefix first.
StrLess(s, t) ==
  IF t = <<>> THEN FALSE
  ELSE IF s = <<>> THEN TRUE
  ELSE IF Head(s) # Head(t) THEN Head(s) < Head(t)
  ELSE StrLess(Tail(s), Tail(t))

\* Collation weights of the characters 0-9, a-z, A-Z.  Level 1: digits
\* before letters, letters alphabetically whatever their case.  Level 3:
\* lower case before upper case.
Weight(level, c) ==
  IF level = 1
    THEN IF IsDigit(c) THEN c - Zero
         ELSE IF c >= 97 THEN 10 + (c - 97)
         ELSE 10 + (c - 65)
    ELSE IF c >= 65 /\ c <= 90 THEN 1 ELSE 0

RECURSIVE SeqCmp(_, _, _)
\* Comparison of two strings by the weights of one level: -1, 0 or 1.
SeqCmp(level, s, t) ==
  IF s = <<>> /\ t = <<>> THEN 0
  ELSE IF s = <<>> THEN -1
  ELSE IF t = <<>> THEN 1
  ELSE IF Weight(level, Head(s)) < Weight(level, Head(t)) THEN -1
  ELSE IF Weight(level, Head(s)) > Weight(level, Head(t)) THEN 1
  ELSE SeqCmp(level, Tail(s), Tail(t))

LocaleCompareFrom(p, s, t) == IF p # 0 THEN p ELSE SeqCmp(3, s, t)

\* String.prototype.localeCompare on alphanumeric strings: the letters and
\* digits decide first, the case only between strings equal up to case.
LocaleCompare(s, t) == LocaleCompareFrom(SeqCmp(1, s, t), s, t)

(***************************************************************************)
(* Dot                                                                     *)
(***************************************************************************)
Dot(id, counter) == [id |-> id, counter |-> counter]

\* Dot.prototype.toString
DotToStr(d) == d.id \o <<Colon>> \o Digits(d.counter)

\* Positions of the delimiter in a string.
ColonsOf(s) == {i \in 1..Len(s) : s[i] = Colon}

RECURSIVE DigitPrefixLen(_)
DigitPrefixLen(s) ==
  IF s = <<>> \/ ~IsDigit(Head(s)) THEN 0
  ELSE 1 + DigitPrefixLen(Tail(s))

RECURSIVE DigitsValue(_)
DigitsValue(s) ==
  IF s = <<>> THEN 0
  ELSE 10 * DigitsValue(SubSeq(s, 1, Len(s) - 1)) + (s[Len(s)] - Zero)

ParseIntWith(s, k) == [ok |-> k > 0, val |-> DigitsValue(SubSeq(s, 1, k))]

\* parseInt on a string of the model's alphabet: the value of the longest
\* prefix of decimal digits, NaN (ok = FALSE) when there is none.
ParseInt(s) == ParseIntWith(s, DigitPrefixLen(s))

\* What stands for a thrown Error("Invalid dot format").
InvalidDot == [ok |-> FALSE, dot |-> Dot(<<>>, 0)]

FromParts(id, num) ==
  IF ~num.ok \/ id = <<>> THEN InvalidDot
  ELSE [ok |-> TRUE, dot |-> Dot(id, num.val)]

SplitAt(s, p) == FromParts(SubSeq(s, 1, p - 1), ParseInt(SubSeq(s, p + 1, Len(s))))

\* Dot.fromString: split(':') must give two parts, a non-empty id and a
\* counter that parseInt accepts.
FromString(s) ==
  IF Cardinality(ColonsOf(s)) # 1 THEN InvalidDot
  ELSE SplitAt(s, CHOOSE i \in ColonsOf(s) : TRUE)

\* Dot.toDot of a string key.
ToDot(s) == FromString(s).dot

CompareDots(d1, d2) ==
  IF d1.id # d2.id THEN LocaleCompare(d1.id, d2.id)
  ELSE d1.counter - d2.counter

\* Dot.compare of two string keys: negative, zero or positive.
Compare(s1, s2) == CompareDots(ToDot(s1), ToDot(s2))

RECURSIVE SortDots(_)
SortFrom(S, m) == <<m>> \o SortDots(S \ {m})

\* Array.from(keys).sort(Dot.compare): the keys in Dot.compare order.
SortDots(S) ==
  IF S = {} THEN <<>>
  ELSE SortFrom(S, CHOOSE x \in S : \A y \in S : Compare(x, y) <= 0)

(***************************************************************************)
(* DotContext: cc is the compact causal context (a map id -> counter), dc  *)
(* the dot cloud (a set of dot strings).                                   *)
(***************************************************************************)
EmptyMap == [x \in {} |-> 0]

MapSet(m, k, v) == [x \in (DOMAIN m) \cup {k} |-> IF x = k THEN v ELSE m[x]]

MapDel(m, k) == [x \in (DOMAIN m) \ {k} |-> m[x]]

\* new DotContext()
NewContext == [cc |-> EmptyMap, dc |-> {}]

DotInWith(ctx, d) ==
  \/ (d.id \in DOMAIN ctx.cc /\ d.counter <= ctx.cc[d.id])
  \/ DotToStr(d) \in ctx.dc

\* DotContext.dotIn of a string key.
DotIn(ctx, s) == DotInWith(ctx, ToDot(s))

RECURSIVE SetToSeq(_)
SetToSeqFrom(S, x) == <<x>> \o SetToSeq(S \ {x})

\* An iteration order of a Set.
SetToSeq(S) ==
  IF S = {} THEN <<>>
  ELSE SetToSeqFrom(S, CHOOSE y \in S : TRUE)

RECURSIVE CompactPass(_, _, _, _)
\* The body of the for-loop of compact() for the cloud dot s, parsed as d.
CompactStep(cc, s, d, rest, toDelete, progress) ==
  IF d.id \notin DOMAIN cc
    THEN IF d.counter = 1
           THEN CompactPass(MapSet(cc, d.id, d.counter), rest, toDelete \cup {s}, TRUE)
           ELSE CompactPass(cc, rest, toDelete, progress)
  ELSE IF d.counter = cc[d.id] + 1
    THEN CompactPass(MapSet(cc, d.id, cc[d.id] + 1), rest, toDelete \cup {s}, TRUE)
  ELSE IF d.counter <= cc[d.id]
    THEN CompactPass(cc, rest, toDelete \cup {s}, progress)
  ELSE CompactPass(cc, rest, toDelete, progress)

\* One pass of the for-loop of compact() over the cloud in the given
\* order: the map as updated so far, the dots to delete, and whether a dot
\* was absorbed.
CompactPass(cc, order, toDelete, progress) ==
  IF order = <<>> THEN [cc |-> cc, toDelete |-> toDelete, progress |-> progress]
  ELSE CompactStep(cc, Head(order), ToDot(Head(order)), Tail(order), toDelete, progress)

RECURSIVE Compact(_)
\* The end of one do-while round of compact(): delete, then loop again
\* when a dot was absorbed.
CompactFrom(ctx, r) ==
  IF r.progress THEN Compact([cc |-> r.cc, dc |-> ctx.dc \ r.toDelete])
  ELSE [cc |-> r.cc, dc |-> ctx.dc \ r.toDelete]

\* DotContext.compact
Compact(ctx) == CompactFrom(ctx, CompactPass(ctx.cc, SetToSeq(ctx.dc), {}, FALSE))

\* A faulty deletion loop: nothing is deleted from the cloud.
KeepCloud(order, toDelete) == order

\* The cloud, a Set iterated in insertion order, after the deletions of one
\* round.
Remaining(order, toDelete) == SelectSeq(order, LAMBDA s : s \notin toDelete)

RECURSIVE CompactSeq(_, _)
\* A faulty compact: the loop body runs once, whatever it absorbed.
CompactOnce(order, r) == [cc |-> r.cc, order |-> Remaining(order, r.toDelete)]

\* A faulty compact: the cloud is emptied.
CompactClears(order, r) == [cc |-> r.cc, order |-> <<>>]

CompactSeqFrom(order, r) ==
  IF r.progress THEN CompactSeq(r.cc, Remaining(order, r.toDelete))
  ELSE [cc |-> r.cc, order |-> Remaining(order, r.toDelete)]

\* DotContext.compact on a cloud given with its iteration order.
CompactSeq(cc, order) == CompactSeqFrom(order, CompactPass(cc, order, {}, FALSE))

MakeDotWith(ctx, id, n) ==
  [ctx |-> [ctx EXCEPT !.cc = MapSet(ctx.cc, id, n)], dot |-> Dot(id, n)]

\* A faulty makeDot: the counter already recorded is ignored.
MakeDotFromOne(ctx, id) == MakeDotWith(ctx, id, 1)

\* DotContext.makeDot: the context after the call and the dot returned.
MakeDot(ctx, id) ==
  MakeDotWith(ctx, id,
              (IF id \in DOMAIN ctx.cc /\ ctx.cc[id] # 0 THEN ctx.cc[id] ELSE 0) + 1)

\* DotContext.insertDot of a string key.
InsertDot(ctx, s, compactNow) ==
  IF compactNow THEN Compact([ctx EXCEPT !.dc = ctx.dc \cup {DotToStr(ToDot(s))}])
  ELSE [ctx EXCEPT !.dc = ctx.dc \cup {DotToStr(ToDot(s))}]

\* A faulty join of the maps: entries present in both are added up
\* instead of taking their maximum.
SumCC(cc, other) ==
  [id \in (DOMAIN cc) \cup (DOMAIN other) |->
     IF id \notin DOMAIN other THEN cc[id]
     ELSE IF id \notin DOMAIN cc THEN other[id]
     ELSE cc[id] + other[id]]

\* A faulty join of the maps: the other map's entries are ignored.
KeepCC(cc, other) == cc

\* A faulty join of the maps: the other map's entries replace this one's.
TakeOtherCC(cc, other) == other

\* The loop of DotContext.join over the other map's entries.
JoinCC(cc, other) ==
  [id \in (DOMAIN cc) \cup (DOMAIN other) |->
     IF id \notin DOMAIN other THEN cc[id]
     ELSE IF id \notin DOMAIN cc THEN other[id]
     ELSE IF cc[id] >= other[id] THEN cc[id] ELSE other[id]]

\* A faulty join of contexts: the other cloud is not inserted.
JoinMapsOnly(ctx, other) == Compact([cc |-> JoinCC(ctx.cc, other.cc), dc |-> ctx.dc])

\* A faulty join of contexts: the final compact() is missing.
JoinNoCompact(ctx, other) ==
  [cc |-> JoinCC(ctx.cc, other.cc),
   dc |-> ctx.dc \cup {DotToStr(ToDot(s)) : s \in other.dc}]

\* A faulty join of contexts: the other context is not merged.
KeepContext(ctx, other) == ctx

\* DotContext.join of two distinct context objects.
ContextJoin(ctx, other) ==
  Compact([cc |-> JoinCC(ctx.cc, other.cc),
           dc |-> ctx.dc \cup {DotToStr(ToDot(s)) : s \in other.dc}])

(***************************************************************************)
(* Values: a payload is a number or a plain object, an object being the    *)
(* sequence of its own properties <<key, number>> in insertion order.      *)
(***************************************************************************)
Num(n) == [k |-> "num", n |-> n, o |-> <<>>]

Obj(props) == [k |-> "obj", n |-> 0, o |-> props]

RECURSIVE StringifyProps(_)
StringifyProps(props) ==
  IF props = <<>> THEN <<>>
  ELSE <<34>> \o Head(props)[1] \o <<34, Colon>> \o Digits(Head(props)[2])
       \o (IF Len(props) = 1 THEN <<>> ELSE <<44>> \o StringifyProps(Tail(props)))

\* JSON.stringify: a number in decimal, an object as {"key":value,...} with
\* its properties in insertion order.
Stringify(v) ==
  IF v.k = "num" THEN Digits(v.n)
  ELSE <<123>> \o StringifyProps(v.o) \o <<125>>

\* DeltaHelpers.join: the maximum of two numbers; a plain object has no
\* join method, so any other pair throws (ok = FALSE).
HelpersJoin(left, right) ==
  IF left.k = "num" /\ right.k = "num"
    THEN [ok |-> TRUE, val |-> IF left.n >= right.n THEN left ELSE right]
    ELSE [ok |-> FALSE, val |-> left]

(***************************************************************************)
(* DotKernel.  dataStorage is a map from dot strings to payloads.  The     *)
(* operators below work on the map and on the contents of the contexts;    *)
(* which context objects a kernel points to is part of the state.          *)
(***************************************************************************)
\* null, for thisDot / otherDot past the end of their arrays.
Null == <<>>

At(seq, i) == IF i <= Len(seq) THEN seq[i] ELSE Null

\* join and deepJoin, first branch test: "dot only in this".
OnlyInThis(thisDot, otherDot) ==
  thisDot # Null /\ (otherDot = Null \/ StrLess(thisDot, otherDot))

\* join, second branch test: "dot only in other".
OnlyInOther(thisDot, otherDot) ==
  otherDot # Null /\ (thisDot = Null \/ Compare(otherDot, thisDot) < 0)

\* deepJoin, second branch test: "dot only in other".
OnlyInOtherDeep(thisDot, otherDot) ==
  otherDot # Null /\ (thisDot = Null \/ StrLess(otherDot, thisDot))

\* A faulty removal test: a dot the other kernel does not store is deleted
\* whether or not the other context knows it.
AlwaysDrops(otherCtx, thisDot) == TRUE

\* "dot only in this": deleted when the other context knows it.
DropsThis(otherCtx, thisDot) == DotIn(otherCtx, thisDot)

\* A faulty import test: a dot of the other kernel is imported even when
\* this context knows it.
AlwaysImports(thisCtx, otherDot) == TRUE

\* "dot only in other": imported unless this context knows it.
ImportsOther(thisCtx, otherDot) == ~DotIn(thisCtx, otherDot)

RECURSIVE JoinLoop(_, _, _, _, _, _, _, _)
\* The body of the while loop of DotKernel.join.
JoinStep(ds, thisDots, otherDots, i, j, otherDs, thisCtx, otherCtx, thisDot, otherDot) ==
  IF OnlyInThis(thisDot, otherDot)
    THEN JoinLoop(IF DropsThis(otherCtx, thisDot) THEN MapDel(ds, thisDot) ELSE ds,
                  thisDots, otherDots, i + 1, j, otherDs, thisCtx, otherCtx)
  ELSE IF OnlyInOther(thisDot, otherDot)
    THEN JoinLoop(IF ImportsOther(thisCtx, otherDot)
                    THEN MapSet(ds, otherDot, otherDs[otherDot]) ELSE ds,
                  thisDots, otherDots, i, j + 1, otherDs, thisCtx, otherCtx)
  ELSE JoinLoop(ds, thisDots, otherDots, i + 1, j + 1, otherDs, thisCtx, otherCtx)

\* The while loop of DotKernel.join: this.dataStorage when it ends.
JoinLoop(ds, thisDots, otherDots, i, j, otherDs, thisCtx, otherCtx) ==
  IF i > Len(thisDots) /\ j > Len(otherDots) THEN ds
  ELSE JoinStep(ds, thisDots, otherDots, i, j, otherDs, thisCtx, otherCtx,
                At(thisDots, i), At(otherDots, j))

\* DotKernel.join up to its last statement: this.dataStorage after the loop.
JoinDS(thisDs, thisCtx, otherDs, otherCtx) ==
  JoinLoop(thisDs, SortDots(DOMAIN thisDs), SortDots(DOMAIN otherDs), 1, 1,
           otherDs, thisCtx, otherCtx)

RECURSIVE DeepJoinLoop(_, _, _, _, _, _, _, _)
\* deepJoin, "dot in both": the payloads are joined when their JSON differs.
DeepJoinBoth(ds, thisDots, otherDots, i, j, otherDs, thisCtx, otherCtx, thisDot, otherDot, joined) ==
  IF Stringify(ds[thisDot]) = Stringify(otherDs[otherDot])
    THEN DeepJoinLoop(ds, thisDots, otherDots, i + 1, j + 1, otherDs, thisCtx, otherCtx)
  ELSE IF joined.ok
    THEN DeepJoinLoop(MapSet(ds, thisDot, joined.val), thisDots, otherDots,
                      i + 1, j + 1, otherDs, thisCtx, otherCtx)
  ELSE [ok |-> FALSE, ds |-> ds]

\* The body of the while loop of DotKernel.deepJoin.
DeepJoinStep(ds, thisDots, otherDots, i, j, otherDs, thisCtx, otherCtx, thisDot, otherDot) ==
  IF OnlyInThis(thisDot, otherDot)
    THEN DeepJoinLoop(IF DropsThis(otherCtx, thisDot) THEN MapDel(ds, thisDot) ELSE ds,
                      thisDots, otherDots, i + 1, j, otherDs, thisCtx, otherCtx)
  ELSE IF OnlyInOtherDeep(thisDot, otherDot)
    THEN DeepJoinLoop(IF ImportsOther(thisCtx, otherDot)
                        THEN MapSet(ds, otherDot, otherDs[otherDot]) ELSE ds,
                      thisDots, otherDots, i, j + 1, otherDs, thisCtx, otherCtx)
  ELSE DeepJoinBoth(ds, thisDots, otherDots, i, j, otherDs, thisCtx, otherCtx, thisDot,
                    otherDot, HelpersJoin(ds[thisDot], otherDs[otherDot]))

\* The while loop of DotKernel.deepJoin: this.dataStorage when it ends or
\* when DeltaHelpers.join throws (ok = FALSE).
DeepJoinLoop(ds, thisDots, otherDots, i, j, otherDs, thisCtx, otherCtx) ==
  IF i > Len(thisDots) /\ j > Len(otherDots) THEN [ok |-> TRUE, ds |-> ds]
  ELSE DeepJoinStep(ds, thisDots, otherDots, i, j, otherDs, thisCtx, otherCtx,
                    At(thisDots, i), At(otherDots, j))

\* DotKernel.deepJoin up to its last statement.
DeepJoinDS(thisDs, thisCtx, otherDs, otherCtx) ==
  DeepJoinLoop(thisDs, SortDots(DOMAIN thisDs), SortDots(DOMAIN otherDs), 1, 1,
               otherDs, thisCtx, otherCtx)

RECURSIVE Branches(_, _, _, _, _)
\* One turn of the while loop of join (deep = FALSE) or deepJoin (deep =
\* TRUE): the branch taken for thisDot and otherDot, then the later turns.
BranchAt(deep, thisDots, otherDots, i, j, thisDot, otherDot) ==
  IF OnlyInThis(thisDot, otherDot)
    THEN {[branch |-> "this", dot |-> thisDot, with |-> Null]}
           \cup Branches(deep, thisDots, otherDots, i + 1, j)
  ELSE IF (IF deep THEN OnlyInOtherDeep(thisDot, otherDot)
                   ELSE OnlyInOther(thisDot, otherDot))
    THEN {[branch |-> "other", dot |-> otherDot, with |-> Null]}
           \cup Branches(deep, thisDots, otherDots, i, j + 1)
  ELSE {[branch |-> "both", dot |-> thisDot, with |-> otherDot]}
         \cup Branches(deep, thisDots, otherDots, i + 1, j + 1)

\* The branches the while loop takes from positions i and j on, each with
\* the dot it handles; "both" handles thisDot together with otherDot.
Branches(deep, thisDots, otherDots, i, j) ==
  IF i > Len(thisDots) /\ j > Len(otherDots) THEN {}
  ELSE BranchAt(deep, thisDots, otherDots, i, j, At(thisDots, i), At(otherDots, j))

\* The branches of this.join(other) or this.deepJoin(other).
BranchesOf(deep, thisDs, otherDs) ==
  Branches(deep, SortDots(DOMAIN thisDs), SortDots(DOMAIN otherDs), 1, 1)

\* A kernel that owns its context, as a value: dataStorage and the content
\* of its context.
Kernel(ds, ctx) == [ds |-> ds, ctx |-> ctx]

\* new DotKernel()
NewKernel == Kernel(EmptyMap, NewContext)

\* this.join(other) for two kernels with distinct context objects.
KernelJoin(this, other) ==
  Kernel(JoinDS(this.ds, this.ctx, other.ds, other.ctx),
         ContextJoin(this.ctx, other.ctx))

KernelDeepJoinFrom(this, other, r) ==
  IF r.ok THEN [ok |-> TRUE, k |-> Kernel(r.ds, ContextJoin(this.ctx, other.ctx))]
  ELSE [ok |-> FALSE, k |-> Kernel(r.ds, this.ctx)]

\* this.deepJoin(other) for two kernels with distinct context objects; when
\* DeltaHelpers.join throws, the context join is not reached.
KernelDeepJoin(this, other) ==
  KernelDeepJoinFrom(this, other, DeepJoinDS(this.ds, this.ctx, other.ds, other.ctx))

\* A faulty delta of add: its context comes from makeDot on a new context
\* instead of insertDot of the allocated dot.
AddDeltaMakeDot(dot, val) ==
  Kernel(MapSet(EmptyMap, DotToStr(dot), val), MakeDot(NewContext, dot.id).ctx)

\* The delta built by add: a fresh kernel holding the new dot.
AddDelta(dot, val) ==
  Kernel(MapSet(EmptyMap, DotToStr(dot), val),
         InsertDot(NewContext, DotToStr(dot), TRUE))

KernelAddWith(ds, m, val) ==
  [ds    |-> MapSet(ds, DotToStr(m.dot), val),
   ctx   |-> m.ctx,
   dot   |-> m.dot,
   delta |-> AddDelta(m.dot, val)]

\* DotKernel.add on dataStorage and the content of sharedContext: both
\* after the call, the dot allocated and the delta returned.
KernelAdd(ds, ctx, id, val) == KernelAddWith(ds, MakeDot(ctx, id), val)

\* Selectors of rmv: null (or omitted), a dot-like object, any other value.
SelAll == [kind |-> "null", dot |-> Dot(<<>>, 0), val |-> Num(0)]

SelDot(d) == [kind |-> "dot", dot |-> d, val |-> Num(0)]

SelVal(v) == [kind |-> "val", dot |-> Dot(<<>>, 0), val |-> v]

\* A faulty rmv: nothing is selected for deletion.
NoTargets(ds, sel) == {}

\* The keys rmv deletes from dataStorage.
RmvTargets(ds, sel) ==
  IF sel.kind = "null" THEN DOMAIN ds
  ELSE IF sel.kind = "dot"
    THEN IF DotToStr(sel.dot) \in DOMAIN ds THEN {DotToStr(sel.dot)} ELSE {}
  ELSE {s \in DOMAIN ds : Stringify(ds[s]) = Stringify(sel.val)}

\* A faulty rmv delta: the deleted dots are not recorded in its context.
NoRmvContext(targets) == NewContext

\* The context of the delta of rmv: the deleted dots inserted without
\* compaction, then one compact().
RmvContext(targets) ==
  Compact([cc |-> EmptyMap, dc |-> {DotToStr(ToDot(s)) : s \in targets}])

KernelRmvWith(ds, targets) ==
  [ds    |-> [s \in (DOMAIN ds) \ targets |-> ds[s]],
   delta |-> Kernel(EmptyMap, RmvContext(targets))]

\* DotKernel.rmv: dataStorage after the call and the delta returned; the
\* kernel's own context is not touched.
KernelRmv(ds, sel) == KernelRmvWith(ds, RmvTargets(ds, sel))

(***************************************************************************)
(* MVReg over a kernel that owns its context.                              *)
(***************************************************************************)
RegWriteResult(r, a) ==
  [reg |-> Kernel(a.ds, a.ctx), delta |-> KernelJoin(r.delta, a.delta)]

RegWriteWith(reg, id, val, r) == RegWriteResult(r, KernelAdd(r.ds, reg.ctx, id, val))

\* MVReg.write: the register's kernel after the call and the delta, which
\* is the rmv delta joined with the add delta.
RegWrite(reg, id, val) == RegWriteWith(reg, id, val, KernelRmv(reg.ds, SelAll))

RegResetWith(reg, r) == [reg |-> Kernel(r.ds, reg.ctx), delta |-> r.delta]

\* A faulty reset: dataStorage is cleared but the delta records nothing.
RegResetSilent(reg) == [reg |-> Kernel(EmptyMap, reg.ctx), delta |-> NewKernel]

\* MVReg.reset
RegReset(reg) == RegResetWith(reg, KernelRmv(reg.ds, SelAll))

\* MVReg.read: the set of the stored values.
RegRead(reg) == {reg.ds[s] : s \in DOMAIN reg.ds}

\* MVReg.join
RegJoin(reg, other) == KernelJoin(reg, other)

(***************************************************************************)
(* Replica identifiers and payloads used by the specifications.            *)
(***************************************************************************)
\* "a", "a1" and "b".
IdA == <<97>>

IdA1 == <<97, 49>>

IdB == <<98>>

Values == {Num(5), Num(8)}

(***************************************************************************)
(* SpecReg: two MVReg replicas.  A replica writes, resets, or joins any    *)
(* delta produced so far, in any order and any number of times.  The       *)
(* replicas start fresh; a behaviour may begin with PreWrites writes of     *)
(* replica 1, each joined at once by replica 2.                            *)
(***************************************************************************)
Replicas == {1, 2}

RegIdPairs == {<<IdA, IdB>>, <<IdA, IdA1>>}

\* Deltas produced in one behaviour.
MaxDeltas == 2

\* Writes of replica 1 already made and delivered when a behaviour starts.
PreWrites == 9

RegInit ==
  /\ \E ids \in RegIdPairs :
       regs = [r \in Replicas |-> [id |-> ids[r], k |-> NewKernel]]
  /\ warm \in {0, PreWrites}
  /\ deltas = <<>>
  /\ applied = [r \in Replicas |-> {}]
  /\ last = [op |-> "init", r |-> 0, i |-> 0, val |-> Num(0), pre |-> NewKernel]
  /\ kernels = 0 /\ ctxs = 0 /\ opIn = 0 /\ opOut = 0

SyncedWriteWith(w) ==
  /\ regs' = [regs EXCEPT ![1].k = w.reg, ![2].k = RegJoin(regs[2].k, w.delta)]
  /\ warm' = warm - 1
  /\ last' = [op |-> "sync", r |-> 1, i |-> 0, val |-> Num(5), pre |-> regs[1].k]
  /\ UNCHANGED <<deltas, applied, kernels, ctxs, opIn, opOut>>

\* One write of the prehistory: regs[1].write(5), then regs[2].join(delta).
SyncedWrite ==
  /\ warm > 0
  /\ SyncedWriteWith(RegWrite(regs[1].k, regs[1].id, Num(5)))

RegKernels == [r \in Replicas |-> regs[r].k]

\* The effect of a mutation w of replica r (a write or a reset): the
\* register is updated in place and the delta is kept for delivery.
Mutate(r, kind, val, w) ==
  /\ regs' = [regs EXCEPT ![r].k = w.reg]
  /\ deltas' = Append(deltas, [by |-> r, kind |-> kind, val |-> val, k |-> w.delta,
                               seen |-> applied[r], before |-> RegKernels,
                               post |-> w.reg])
  /\ applied' = [applied EXCEPT ![r] = @ \cup {Len(deltas) + 1}]
  /\ last' = [op |-> kind, r |-> r, i |-> Len(deltas) + 1, val |-> val,
              pre |-> regs[r].k]
  /\ UNCHANGED <<warm, kernels, ctxs, opIn, opOut>>

\* regs[r].write(val)
Write(r, val) ==
  /\ warm = 0
  /\ Len(deltas) < MaxDeltas
  /\ Mutate(r, "write", val, RegWrite(regs[r].k, regs[r].id, val))

\* regs[r].reset()
Reset(r) ==
  /\ warm = 0
  /\ Len(deltas) < MaxDeltas
  /\ Mutate(r, "reset", Num(0), RegReset(regs[r].k))

\* regs[r].join(deltas[i])
Deliver(r, i) ==
  /\ warm = 0
  /\ regs' = [regs EXCEPT ![r].k = RegJoin(regs[r].k, deltas[i].k)]
  /\ applied' = [applied EXCEPT ![r] = @ \cup {i}]
  /\ last' = [op |-> "join", r |-> r, i |-> i, val |-> Num(0), pre |-> regs[r].k]
  /\ UNCHANGED <<deltas, warm, kernels, ctxs, opIn, opOut>>

RegNext ==
  \/ SyncedWrite
  \/ \E r \in Replicas, v \in Values : Write(r, v)
  \/ \E r \in Replicas : Reset(r)
  \/ \E r \in Replicas, i \in 1..Len(deltas) : Deliver(r, i)

SpecReg == RegInit /\ [][RegNext]_vars

(***************************************************************************)
(* Kernels given as inputs.  A kernel is built as the tests build one      *)
(* (createKernel): every stored dot is set in dataStorage and inserted in  *)
(* the context; dots seen and removed are inserted in the context only.    *)
(* The kernel may also have seen the first OpHist dots of replica "a".     *)
(***************************************************************************)
Absent == [k |-> "absent", n |-> 0, o |-> <<>>]

Seen == [k |-> "seen", n |-> 0, o |-> <<>>]

\* Dots of replica "a" seen before the input kernel was built.
OpHist == 8

IsStored(st) == st.k \notin {"absent", "seen"}

\* createKernel(data) followed by sharedContext.insertDot of the seen dots.
KernelOf(st, hist) ==
  Kernel([s \in {d \in DOMAIN st : IsStored(st[d])} |-> st[s]],
         Compact([cc |-> IF hist > 0 THEN MapSet(EmptyMap, IdA, hist) ELSE EmptyMap,
                  dc |-> {DotToStr(ToDot(d)) : d \in {x \in DOMAIN st : st[x] # Absent}}]))

(***************************************************************************)
(* SpecMut: one mutation (add, rmv in its three modes, MVReg write or      *)
(* reset) applied to an input kernel that owns its context.                *)
(***************************************************************************)
MutDots == {DotToStr(Dot(IdA, 9)), DotToStr(Dot(IdA1, 1)), DotToStr(Dot(IdB, 1))}

\* {"a":1,"b":2} and {"b":2,"a":1}
ObjAB == Obj(<< <<IdA, 1>>, <<IdB, 2>> >>)

ObjBA == Obj(<< <<IdB, 2>>, <<IdA, 1>> >>)

MutValues == Values \cup {ObjAB, ObjBA}

MutIds == {IdA, IdA1, IdB}

MutSelectors ==
  {SelAll} \cup {SelDot(ToDot(s)) : s \in MutDots} \cup {SelVal(v) : v \in MutValues}

NoDot == Dot(<<>>, 0)

MutInit ==
  /\ \E st \in [MutDots -> {Absent, Seen} \cup MutValues], hist \in {0, OpHist} :
       opIn = KernelOf(st, hist)
  /\ opOut = [op |-> "none", id |-> <<>>, val |-> Num(0), sel |-> SelAll,
              post |-> NewKernel, delta |-> NewKernel, dot |-> NoDot]
  /\ kernels = 0 /\ ctxs = 0 /\ last = 0 /\ regs = 0 /\ deltas = 0
  /\ applied = 0 /\ warm = 0

MutFrame == UNCHANGED <<opIn, kernels, ctxs, last, regs, deltas, applied, warm>>

DoAddWith(id, val, r) ==
  /\ opOut' = [op |-> "add", id |-> id, val |-> val, sel |-> SelAll,
               post |-> Kernel(r.ds, r.ctx), delta |-> r.delta, dot |-> r.dot]
  /\ MutFrame

\* opIn.add(id, val)
DoAdd(id, val) ==
  /\ opOut.op = "none"
  /\ DoAddWith(id, val, KernelAdd(opIn.ds, opIn.ctx, id, val))

DoRmvWith(sel, r) ==
  /\ opOut' = [op |-> "rmv", id |-> <<>>, val |-> Num(0), sel |-> sel,
               post |-> Kernel(r.ds, opIn.ctx), delta |-> r.delta, dot |-> NoDot]
  /\ MutFrame

\* opIn.rmv(sel)
DoRmv(sel) ==
  /\ opOut.op = "none"
  /\ DoRmvWith(sel, KernelRmv(opIn.ds, sel))

DoRegWith(op, id, val, w) ==
  /\ opOut' = [op |-> op, id |-> id, val |-> val, sel |-> SelAll,
               post |-> w.reg, delta |-> w.delta, dot |-> NoDot]
  /\ MutFrame

\* A register over opIn with the given id: write(val)
DoWrite(id, val) ==
  /\ opOut.op = "none"
  /\ DoRegWith("write", id, val, RegWrite(opIn, id, val))

\* A register over opIn: reset()
DoReset ==
  /\ opOut.op = "none"
  /\ DoRegWith("reset", <<>>, Num(0), RegReset(opIn))

MutNext ==
  \/ \E id \in MutIds, v \in Values : DoAdd(id, v)
  \/ \E sel \in MutSelectors : DoRmv(sel)
  \/ \E id \in MutIds, v \in Values : DoWrite(id, v)
  \/ DoReset

SpecMut == MutInit /\ [][MutNext]_vars

(***************************************************************************)
(* SpecJoin: this.join(other) or this.deepJoin(other) on two input kernels *)
(* that own their contexts.  The dots stored by `this` carry 5, those      *)
(* stored by `other` carry one value of Values.                            *)
(***************************************************************************)
JoinDots == MutDots \cup {DotToStr(Dot(IdA, 10))}

JoinInit ==
  /\ \E sa \in [JoinDots -> {Absent, Seen, Num(5)}], v \in Values :
       \E sb \in [JoinDots -> {Absent, Seen, v}] :
         opIn = [this |-> KernelOf(sa, 0), other |-> KernelOf(sb, 0)]
  /\ opOut = [op |-> "none", ok |-> TRUE, post |-> NewKernel, branches |-> {}]
  /\ kernels = 0 /\ ctxs = 0 /\ last = 0 /\ regs = 0 /\ deltas = 0
  /\ applied = 0 /\ warm = 0

\* opIn.this.join(opIn.other)
DoJoin ==
  /\ opOut.op = "none"
  /\ opOut' = [op |-> "join", ok |-> TRUE, post |-> KernelJoin(opIn.this, opIn.other),
               branches |-> BranchesOf(FALSE, opIn.this.ds, opIn.other.ds)]
  /\ MutFrame

DoDeepJoinWith(r) ==
  /\ opOut' = [op |-> "deepJoin", ok |-> r.ok, post |-> r.k,
               branches |-> BranchesOf(TRUE, opIn.this.ds, opIn.other.ds)]
  /\ MutFrame

\* opIn.this.deepJoin(opIn.other)
DoDeepJoin ==
  /\ opOut.op = "none"
  /\ DoDeepJoinWith(KernelDeepJoin(opIn.this, opIn.other))

JoinNext == DoJoin \/ DoDeepJoin

SpecJoin == JoinInit /\ [][JoinNext]_vars

(***************************************************************************)
(* SpecThrow: this.deepJoin(other) on two input kernels that own their     *)
(* contexts and store numbers and plain objects, so that DeltaHelpers.join *)
(* may throw on a dot both of them store.                                  *)
(***************************************************************************)
ThrowDots == {DotToStr(Dot(IdA, 1)), DotToStr(Dot(IdB, 1))}

ThrowInit ==
  /\ \E sa \in [ThrowDots -> {Absent, Seen, Num(5), ObjAB}],
        sb \in [ThrowDots -> {Absent, Seen, Num(8), ObjBA}] :
       opIn = [this |-> KernelOf(sa, 0), other |-> KernelOf(sb, 0)]
  /\ opOut = [op |-> "none", ok |-> TRUE, post |-> NewKernel, branches |-> {}]
  /\ kernels = 0 /\ ctxs = 0 /\ last = 0 /\ regs = 0 /\ deltas = 0
  /\ applied = 0 /\ warm = 0

ThrowNext == DoDeepJoin

SpecThrow == ThrowInit /\ [][ThrowNext]_vars

(***************************************************************************)
(* SpecAssoc: three input kernels A, B, C.  One step joins B then C into   *)
(* a copy of A; another joins C into a copy of B and that copy into a copy *)
(* of A.                                                                   *)
(***************************************************************************)
AssocDots == {DotToStr(Dot(IdA, 9)), DotToStr(Dot(IdA, 10)), DotToStr(Dot(IdA1, 1))}

AssocInit ==
  /\ \E sa, sb, sc \in [AssocDots -> {Absent, Seen, Num(5)}] :
       opIn = [a |-> KernelOf(sa, 0), b |-> KernelOf(sb, 0), c |-> KernelOf(sc, 0)]
  /\ opOut = [doneL |-> FALSE, left |-> NewKernel, doneR |-> FALSE, right |-> NewKernel]
  /\ kernels = 0 /\ ctxs = 0 /\ last = 0 /\ regs = 0 /\ deltas = 0
  /\ applied = 0 /\ warm = 0

\* left = copy of A; left.join(B); left.join(C)
DoLeft ==
  /\ ~opOut.doneL
  /\ opOut' = [opOut EXCEPT !.doneL = TRUE,
                            !.left = KernelJoin(KernelJoin(opIn.a, opIn.b), opIn.c)]
  /\ MutFrame

\* temp = copy of B; temp.join(C); right = copy of A; right.join(temp)
DoRight ==
  /\ ~opOut.doneR
  /\ opOut' = [opOut EXCEPT !.doneR = TRUE,
                            !.right = KernelJoin(opIn.a, KernelJoin(opIn.b, opIn.c))]
  /\ MutFrame

AssocNext == DoLeft \/ DoRight

SpecAssoc == AssocInit /\ [][AssocNext]_vars

(***************************************************************************)
(* SpecDeep: deepJoin on three input kernels A, B, C with numeric          *)
(* payloads.  One step repeats A.deepJoin(B), one runs A.deepJoin(B) and   *)
(* B.deepJoin(A) on copies, one groups three deepJoins both ways.          *)
(***************************************************************************)
DeepDots == {DotToStr(Dot(IdA, 9)), DotToStr(Dot(IdA, 10))}

DeepInit ==
  /\ \E sa, sb, sc \in [DeepDots -> {Absent, Seen} \cup Values] :
       opIn = [a |-> KernelOf(sa, 0), b |-> KernelOf(sb, 0), c |-> KernelOf(sc, 0)]
  /\ opOut = [op |-> "none", x |-> NewKernel, y |-> NewKernel]
  /\ kernels = 0 /\ ctxs = 0 /\ last = 0 /\ regs = 0 /\ deltas = 0
  /\ applied = 0 /\ warm = 0

DeepDone(op, x, y) ==
  /\ opOut' = [op |-> op, x |-> x, y |-> y]
  /\ MutFrame

DoDeepTwiceWith(once) == DeepDone("twice", once, KernelDeepJoin(once, opIn.b).k)

\* x = copy of A; x.deepJoin(B); y = copy of x; y.deepJoin(B)
DoDeepTwice ==
  /\ opOut.op = "none"
  /\ DoDeepTwiceWith(KernelDeepJoin(opIn.a, opIn.b).k)

\* x = copy of A; x.deepJoin(B); y = copy of B; y.deepJoin(A)
DoDeepSwap ==
  /\ opOut.op = "none"
  /\ DeepDone("swap", KernelDeepJoin(opIn.a, opIn.b).k, KernelDeepJoin(opIn.b, opIn.a).k)

\* x = copy of A; x.deepJoin(B); x.deepJoin(C);
\* t = copy of B; t.deepJoin(C); y = copy of A; y.deepJoin(t)
DoDeepGroup ==
  /\ opOut.op = "none"
  /\ DeepDone("group",
              KernelDeepJoin(KernelDeepJoin(opIn.a, opIn.b).k, opIn.c).k,
              KernelDeepJoin(opIn.a, KernelDeepJoin(opIn.b, opIn.c).k).k)

DeepNext == DoDeepTwice \/ DoDeepSwap \/ DoDeepGroup

SpecDeep == DeepInit /\ [][DeepNext]_vars

(***************************************************************************)
(* SpecCompact: compact() on an input context, given by its compact causal *)
(* context and by its dot cloud in iteration (insertion) order.            *)
(***************************************************************************)
\* Longest cloud of an input context.
MaxCloud == 3

\* Highest counter of a cloud dot.
MaxCloudCounter == 3

\* Highest counter of a compact causal context entry.
MaxCC == 2

CompactIds == {IdA, IdA1}

CloudDots == {DotToStr(Dot(id, c)) : id \in CompactIds, c \in 1..MaxCloudCounter}

\* The iteration orders of the clouds of at most n dots.
CloudOrders(n) ==
  {o \in UNION {[1..m -> CloudDots] : m \in 0..n} :
     \A i, j \in 1..Len(o) : i # j => o[i] # o[j]}

\* The compact causal contexts with counters up to n.
CCMaps(n) == UNION {[ids -> 1..n] : ids \in SUBSET CompactIds}

CompactInit ==
  /\ \E cc \in CCMaps(MaxCC), order \in CloudOrders(MaxCloud) :
       opIn = [cc |-> cc, order |-> order]
  /\ opOut = [op |-> "none", cc |-> EmptyMap, order |-> <<>>]
  /\ kernels = 0 /\ ctxs = 0 /\ last = 0 /\ regs = 0 /\ deltas = 0
  /\ applied = 0 /\ warm = 0

DoCompactWith(r) ==
  /\ opOut' = [op |-> "compact", cc |-> r.cc, order |-> r.order]
  /\ MutFrame

\* opIn.compact()
DoCompact ==
  /\ opOut.op = "none"
  /\ DoCompactWith(CompactSeq(opIn.cc, opIn.order))

CompactNext == DoCompact

SpecCompact == CompactInit /\ [][CompactNext]_vars

(***************************************************************************)
(* SpecPasses: the do-while loop of compact() pass by pass, on contexts    *)
(* of one replica id.  opOut holds the context while the loop runs, the    *)
(* number of passes made, and op = "done" once the loop condition          *)
(* compactedCloud was false.                                               *)
(***************************************************************************)
\* Highest counter of a cloud dot.
MaxPassCounter == 4

PassDots == {DotToStr(Dot(IdA, c)) : c \in 1..MaxPassCounter}

\* The iteration orders of the clouds of at most MaxCloud dots.
PassOrders ==
  {o \in UNION {[1..m -> PassDots] : m \in 0..MaxCloud} :
     \A i, j \in 1..Len(o) : i # j => o[i] # o[j]}

PassInit ==
  /\ \E cc \in UNION {[ids -> 1..MaxCC] : ids \in SUBSET {IdA}}, order \in PassOrders :
       /\ opIn = [cc |-> cc, order |-> order]
       /\ opOut = [op |-> "run", cc |-> cc, order |-> order, passes |-> 0]
  /\ kernels = 0 /\ ctxs = 0 /\ last = 0 /\ regs = 0 /\ deltas = 0
  /\ applied = 0 /\ warm = 0

DoPassWith(r) ==
  /\ opOut' = [op |-> IF r.progress THEN "run" ELSE "done",
               cc |-> r.cc,
               order |-> Remaining(opOut.order, r.toDelete),
               passes |-> opOut.passes + 1]
  /\ MutFrame

\* One pass of the do-while loop: the for-loop over the cloud, the
\* deletions, and the test of compactedCloud.
DoPass ==
  /\ opOut.op = "run"
  /\ DoPassWith(CompactPass(opOut.cc, opOut.order, {}, FALSE))

PassNext == DoPass

SpecPasses == PassInit /\ [][PassNext]_vars

\* compact() is sequential code: a pass that can run does run.
SpecPassesFair == SpecPasses /\ WF_vars(DoPass)

(***************************************************************************)
(* SpecUnion: join on two distinct input contexts A and B.  One step runs  *)
(* A.join(B) and, on copies, B.join(A).                                    *)
(***************************************************************************)
\* Largest cloud of an input context.
MaxJoinCloud == 1

\* The input contexts.
JoinContexts ==
  {[cc |-> cc, dc |-> dc] :
     cc \in CCMaps(MaxCC),
     dc \in {d \in SUBSET CloudDots : Cardinality(d) <= MaxJoinCloud}}

UnionInit ==
  /\ \E a, b \in JoinContexts : opIn = [a |-> a, b |-> b]
  /\ opOut = [op |-> "none", a |-> NewContext, b |-> NewContext, ba |-> NewContext]
  /\ kernels = 0 /\ ctxs = 0 /\ last = 0 /\ regs = 0 /\ deltas = 0
  /\ applied = 0 /\ warm = 0

\* A.join(B): A and B after the call, join writing to `this` only; and
\* B.clone().join(A.clone()).
DoCtxJoin ==
  /\ opOut.op = "none"
  /\ opOut' = [op |-> "join", a |-> ContextJoin(opIn.a, opIn.b), b |-> opIn.b,
               ba |-> ContextJoin(opIn.b, opIn.a)]
  /\ MutFrame

UnionNext == DoCtxJoin

SpecUnion == UnionInit /\ [][UnionNext]_vars

(***************************************************************************)
(* SpecDot: the Dot class on its own.  The input is either a string handed *)
(* to Dot.fromString, or an id and a counter handed to the constructor;    *)
(* a counter is a JS value, an integer or not.  A dot built from an        *)
(* integer counter is also printed and parsed back.                        *)
(***************************************************************************)
\* Longest string handed to Dot.fromString.
MaxStrLen == 4

\* Highest integer counter handed to the constructor.
MaxDotCounter == 11

\* 'a', '0', '1' and ':'.
DotAlphabet == {97, Zero, Zero + 1, Colon}

DotStrings == UNION {[1..n -> DotAlphabet] : n \in 0..MaxStrLen}

\* Counters handed to the constructor: integers, and values that are not
\* integers (1.5, NaN, 'x', undefined).
JsInt(n) == [int |-> TRUE, n |-> n]

NotInteger == [int |-> FALSE, n |-> 0]

DotFieldIds == {<<>>, IdA, IdA1}

\* new Dot(id, counter): the two fields are stored as given; nothing is
\* thrown.
Construct(id, counter) == [ok |-> TRUE, id |-> id, counter |-> counter]

DotInit ==
  /\ \/ \E str \in DotStrings :
          opIn = [kind |-> "string", str |-> str, id |-> <<>>, counter |-> NotInteger]
     \/ \E id \in DotFieldIds, c \in {JsInt(n) : n \in 0..MaxDotCounter} \cup {NotInteger} :
          opIn = [kind |-> "fields", str |-> <<>>, id |-> id, counter |-> c]
  /\ opOut = [op |-> "none", ok |-> TRUE, dot |-> Dot(<<>>, 0), str |-> <<>>,
              made |-> Construct(<<>>, NotInteger)]
  /\ kernels = 0 /\ ctxs = 0 /\ last = 0 /\ regs = 0 /\ deltas = 0
  /\ applied = 0 /\ warm = 0

\* new Dot(opIn.id, opIn.counter)
DoConstruct ==
  /\ opOut.op = "none" /\ opIn.kind = "fields"
  /\ opOut' = [opOut EXCEPT !.op = "construct",
                            !.made = Construct(opIn.id, opIn.counter),
                            !.ok = Construct(opIn.id, opIn.counter).ok]
  /\ MutFrame

DoFromStringWith(r) ==
  /\ opOut' = [opOut EXCEPT !.op = "parse", !.ok = r.ok, !.dot = r.dot,
                            !.str = IF r.ok THEN DotToStr(r.dot) ELSE <<>>]
  /\ MutFrame

\* d = Dot.fromString(opIn.str) and, when it returns, d.toString()
DoFromString ==
  /\ opOut.op = "none" /\ opIn.kind = "string"
  /\ DoFromStringWith(FromString(opIn.str))

DoPrintWith(str, r) ==
  /\ opOut' = [opOut EXCEPT !.op = "print", !.ok = r.ok, !.dot = r.dot, !.str = str]
  /\ MutFrame

\* d = new Dot(opIn.id, n) for an integer n; Dot.fromString(d.toString())
DoPrint ==
  /\ opOut.op = "none" /\ opIn.kind = "fields" /\ opIn.counter.int
  /\ DoPrintWith(DotToStr(Dot(opIn.id, opIn.counter.n)),
                 FromString(DotToStr(Dot(opIn.id, opIn.counter.n))))

DotNext == DoConstruct \/ DoFromString \/ DoPrint

SpecDot == DotInit /\ [][DotNext]_vars

(***************************************************************************)
(* SpecHelpers: DeltaHelpers.join(left, right) on values of every kind.    *)
(* Besides numbers and plain objects, a value is an object with a join     *)
(* method: the object of the kernel tests, whose state is the number in    *)
(* its field `value`, or an MVReg, whose state is the DotKernel its field  *)
(* dotKernel refers to.  heap[r] is the kernel object at reference r.      *)
(***************************************************************************)
\* { value: n, join(other) { this.value = Math.max(this.value, other.value) } }
Crdt(n) == [k |-> "crdt", n |-> n, o |-> <<>>]

\* An MVReg whose field dotKernel holds the reference r.
RegRef(r) == [k |-> "reg", n |-> r, o |-> <<>>]

\* Object.create(Object.getPrototypeOf(left)) and Object.assign(res, left):
\* a new object of the same type with the same field values, a reference
\* being copied as a reference.
ShallowCopy(left) == left

\* Math.max of two numbers.
MathMax(left, right) == IF left.n >= right.n THEN left ELSE right

\* res.join(right) for the copy res, an object with a join method.
JoinMethod(heap, res, right) ==
  IF res.k = "crdt"
    THEN [ok |-> TRUE, val |-> Crdt(MathMax(res, right).n), heap |-> heap]
    ELSE [ok |-> TRUE, val |-> res,
          heap |-> [heap EXCEPT ![res.n] = KernelJoin(heap[res.n], heap[right.n])]]

\* DeltaHelpers.join with the objects it may reach: the value returned and
\* the heap after the call, or ok = FALSE for the thrown Error.
HelpersJoinHeap(heap, left, right) ==
  IF left.k = "num" /\ right.k = "num"
    THEN [ok |-> TRUE, val |-> MathMax(left, right), heap |-> heap]
  ELSE IF left.k \in {"crdt", "reg"}
    THEN JoinMethod(heap, ShallowCopy(left), right)
  ELSE [ok |-> FALSE, val |-> left, heap |-> heap]

HelperDots == {DotToStr(Dot(IdA, 1)), DotToStr(Dot(IdB, 1))}

\* The kernels of the two registers.
HelperKernels == {KernelOf(st, 0) : st \in [HelperDots -> {Absent, Seen} \cup Values]}

\* The pairs (left, right): any two of the numbers and plain objects, a
\* number or plain object with an object that joins, and two objects of
\* the same joining kind.
HelperPairs ==
  (MutValues \X MutValues)
    \cup (MutValues \X {Crdt(5), RegRef(2)})
    \cup ({Crdt(5), Crdt(8)} \X {Crdt(5), Crdt(8)})
    \cup {<<RegRef(1), RegRef(2)>>}

HelpersInit ==
  /\ \E pair \in HelperPairs, k1, k2 \in HelperKernels :
       opIn = [left |-> pair[1], right |-> pair[2], heap |-> <<k1, k2>>]
  /\ opOut = [op |-> "none", ok |-> TRUE, val |-> Num(0), heap |-> <<>>]
  /\ kernels = 0 /\ ctxs = 0 /\ last = 0 /\ regs = 0 /\ deltas = 0
  /\ applied = 0 /\ warm = 0

DoHelpersJoinWith(r) ==
  /\ opOut' = [op |-> "join", ok |-> r.ok, val |-> r.val, heap |-> r.heap]
  /\ MutFrame

\* DeltaHelpers.join(opIn.left, opIn.right)
DoHelpersJoin ==
  /\ opOut.op = "none"
  /\ DoHelpersJoinWith(HelpersJoinHeap(opIn.heap, opIn.left, opIn.right))

HelpersNext == DoHelpersJoin

SpecHelpers == HelpersInit /\ [][HelpersNext]_vars

(***************************************************************************)
(* SpecORSet: two DeltaORSet replicas, constructed empty or both with the   *)
(* item "a" under the tag 0.  A replica builds the delta of an add (with   *)
(* a tag no one has used) or of a remove, joins any delta built so far,    *)
(* in any order and any number of times, or joins the other replica as a   *)
(* whole.  applied[r].direct keeps the deltas whose content                *)
(* replica r has joined, applied[r].past those deltas and all the deltas   *)
(* their issuers had joined before; a delta records the past of its        *)
(* issuer as seen.                                                         *)
(***************************************************************************)
ORReplicas == {1, 2}

ORItems == {"a", "b"}

\* Deltas built in one behaviour.
MaxORDeltas == 2

\* init(): { added: {}, removed: {} }
ORInit == [added |-> EmptyMap, removed |-> EmptyMap]

\* this.#added[item] || [], and the same for #removed.
TagsOf(m, item) == IF item \in DOMAIN m THEN m[item] ELSE {}

\* DeltaORSet.add(item, tag): the delta; this is not changed.
ORAddDelta(reg, item, tag) ==
  [added |-> MapSet(EmptyMap, item, TagsOf(reg.added, item) \cup {tag}),
   removed |-> EmptyMap]

\* A faulty remove: every tag there can be is tombstoned.
RemoveAnyTag(reg, item) ==
  [added |-> EmptyMap, removed |-> MapSet(EmptyMap, item, 0..(MaxORDeltas + 1))]

\* DeltaORSet.remove(item): the delta; this is not changed.
ORRemoveDelta(reg, item) ==
  IF item \notin DOMAIN reg.added THEN ORInit
  ELSE [added |-> EmptyMap,
        removed |-> MapSet(EmptyMap, item,
                           TagsOf(reg.removed, item) \cup reg.added[item])]

\* One loop of join: the tags of every item of the delta are added to the
\* item's set.
JoinTags(m, d) == [x \in (DOMAIN m) \cup (DOMAIN d) |-> TagsOf(m, x) \cup TagsOf(d, x)]

\* DeltaORSet.join(delta)
ORJoin(reg, delta) ==
  [added |-> JoinTags(reg.added, delta.added),
   removed |-> JoinTags(reg.removed, delta.removed)]

\* get value: the items with an add tag that is not among their removed
\* tags.
ORValue(reg) ==
  {item \in DOMAIN reg.added :
     \E tag \in reg.added[item] : tag \notin TagsOf(reg.removed, item)}

\* new DeltaORSet() or new DeltaORSet({ added: { a: new Set([0]) } })
ORStarts == {ORInit, [added |-> MapSet(EmptyMap, "a", {0}), removed |-> EmptyMap]}

ORSetInit ==
  /\ \E start \in ORStarts : regs = [r \in ORReplicas |-> start]
  /\ deltas = <<>>
  /\ applied = [r \in ORReplicas |-> [direct |-> {}, past |-> {}]]
  /\ last = [op |-> "new", i |-> 0, again |-> FALSE]
  /\ kernels = 0 /\ ctxs = 0 /\ warm = 0 /\ opIn = 0 /\ opOut = 0

ORFrame == UNCHANGED <<kernels, ctxs, warm, opIn, opOut>>

\* The delta d of replica r is kept for delivery.
ORIssue(r, kind, item, tag, d) ==
  /\ Len(deltas) < MaxORDeltas
  /\ deltas' = Append(deltas, [by |-> r, kind |-> kind, item |-> item, tag |-> tag,
                               d |-> d, seen |-> applied[r].past])
  /\ last' = [op |-> kind, i |-> Len(deltas) + 1, again |-> FALSE]
  /\ UNCHANGED <<regs, applied>>
  /\ ORFrame

\* regs[r].add(item), the tag being a new one.
ORAdd(r, item) ==
  ORIssue(r, "add", item, Len(deltas) + 1, ORAddDelta(regs[r], item, Len(deltas) + 1))

\* regs[r].remove(item)
ORRemove(r, item) == ORIssue(r, "remove", item, -1, ORRemoveDelta(regs[r], item))

\* regs[r].join(deltas[i].d)
ORDeliver(r, i) ==
  /\ regs' = [regs EXCEPT ![r] = ORJoin(regs[r], deltas[i].d)]
  /\ applied' = [applied EXCEPT ![r] = [direct |-> @.direct \cup {i},
                                         past |-> @.past \cup {i} \cup deltas[i].seen]]
  /\ last' = [op |-> "join", i |-> i, again |-> i \in applied[r].direct]
  /\ UNCHANGED deltas
  /\ ORFrame

\* regs[r].join(regs[o]): the other replica is read through its getters
\* added and removed.
ORSync(r, o) ==
  /\ r # o
  /\ regs' = [regs EXCEPT ![r] = ORJoin(regs[r], regs[o])]
  /\ applied' = [applied EXCEPT ![r] = [direct |-> @.direct \cup applied[o].direct,
                                         past |-> @.past \cup applied[o].past]]
  /\ last' = [op |-> "sync", i |-> 0, again |-> FALSE]
  /\ UNCHANGED deltas
  /\ ORFrame

ORSetNext ==
  \/ \E r \in ORReplicas, item \in ORItems : ORAdd(r, item)
  \/ \E r \in ORReplicas, item \in ORItems : ORRemove(r, item)
  \/ \E r \in ORReplicas, i \in 1..Len(deltas) : ORDeliver(r, i)
  \/ \E r, o \in ORReplicas : ORSync(r, o)

SpecORSet == ORSetInit /\ [][ORSetNext]_vars

(***************************************************************************)
(* SpecLattice: join on three compacted input contexts A, B, C over one    *)
(* replica id.  One step groups the joins both ways; another joins into A  *)
(* a copy of A, and B twice.                                               *)
(***************************************************************************)
\* Largest cloud of an input context.
MaxTripleCloud == 2

\* Highest counter of a cloud dot of an input context.
MaxTripleCounter == 4

TripleDots == {DotToStr(Dot(IdA, c)) : c \in 1..MaxTripleCounter}

\* The input contexts: what compact() leaves unchanged.
TripleContexts ==
  {ctx \in {[cc |-> cc, dc |-> dc] :
              cc \in UNION {[ids -> 1..MaxCC] : ids \in SUBSET {IdA}},
              dc \in {d \in SUBSET TripleDots : Cardinality(d) <= MaxTripleCloud}} :
     Compact(ctx) = ctx}

LatticeInit ==
  /\ \E a, b, c \in TripleContexts : opIn = [a |-> a, b |-> b, c |-> c]
  /\ opOut = [op |-> "none", x |-> NewContext, y |-> NewContext, z |-> NewContext]
  /\ kernels = 0 /\ ctxs = 0 /\ last = 0 /\ regs = 0 /\ deltas = 0
  /\ applied = 0 /\ warm = 0

LatticeDone(op, x, y, z) ==
  /\ opOut' = [op |-> op, x |-> x, y |-> y, z |-> z]
  /\ MutFrame

\* x = A.clone(); x.join(B); x.join(C);
\* t = B.clone(); t.join(C); y = A.clone(); y.join(t)
DoCtxGroup ==
  /\ opOut.op = "none"
  /\ LatticeDone("group",
                 ContextJoin(ContextJoin(opIn.a, opIn.b), opIn.c),
                 ContextJoin(opIn.a, ContextJoin(opIn.b, opIn.c)),
                 NewContext)

DoCtxTwiceWith(once) ==
  LatticeDone("twice", ContextJoin(opIn.a, opIn.a), once, ContextJoin(once, opIn.b))

\* x = A.clone(); x.join(A.clone());
\* y = A.clone(); y.join(B); z = y.clone(); z.join(B)
DoCtxTwice ==
  /\ opOut.op = "none"
  /\ DoCtxTwiceWith(ContextJoin(opIn.a, opIn.b))

LatticeNext == DoCtxGroup \/ DoCtxTwice

SpecLattice == LatticeInit /\ [][LatticeNext]_vars

(***************************************************************************)
(* Spec: kernels and context objects on a heap.  Context object k is the   *)
(* contextBase of kernel k; object 0 is a context created on its own and   *)
(* handed to constructors as sharedContext.  A kernel's field shared names *)
(* the object its sharedContext points to.  applied[k] keeps the dots that *)
(* add and dotAdd have allocated through kernel k; last.dot is the dot the *)
(* last add or dotAdd allocated.                                           *)
(***************************************************************************)
MaxKernels == 3

MaxOps == 3

MaxCounter == 2

HeapIds == {IdA, IdA1}

HeapDots == {DotToStr(Dot(id, c)) : id \in HeapIds, c \in 1..MaxCounter}

HeapSelectors ==
  {SelAll} \cup {SelDot(ToDot(s)) : s \in HeapDots} \cup {SelVal(v) : v \in Values}

\* A faulty constructor: the kernel works on its own contextBase, object k,
\* instead of the context it was given.
BaseContext(k) == ctxs[k]

\* The content of kernel k's sharedContext.
CtxOf(k) == ctxs[kernels[k].shared]

\* new DotKernel() or new DotKernel(shared) for each of the first two
\* kernels; no operation has run yet.
Init ==
  /\ \E own \in [1..2 -> BOOLEAN] :
       kernels = [k \in 1..2 |-> [ds |-> EmptyMap, shared |-> IF own[k] THEN k ELSE 0]]
  /\ ctxs = [c \in 0..MaxKernels |-> NewContext]
  /\ last = [op |-> "new", k |-> 0, o |-> 0, n |-> 0,
             preDs |-> EmptyMap, preCtx |-> NewContext, ret |-> NewKernel, dot |-> NoDot]
  /\ applied = [k \in 1..MaxKernels |-> {}]
  /\ regs = 0 /\ deltas = 0 /\ warm = 0 /\ opIn = 0 /\ opOut = 0

AllocFrame == UNCHANGED <<regs, deltas, warm, opIn, opOut>>

HeapFrame == UNCHANGED <<regs, deltas, applied, warm, opIn, opOut>>

\* The record of the operation just run on kernel k (with argument kernel
\* o, or 0): what k stored and what its sharedContext held before it, and
\* the kernel the call returned (a new kernel when it returned none).
\* AllocWith fills in the dot of an add or dotAdd.
Ran(op, k, o, ret) ==
  [op |-> op, k |-> k, o |-> o, n |-> last.n + 1,
   preDs |-> kernels[k].ds, preCtx |-> CtxOf(k), ret |-> ret, dot |-> NoDot]

CanAllocate(k, id) ==
  IF id \in DOMAIN CtxOf(k).cc THEN CtxOf(k).cc[id] < MaxCounter ELSE TRUE

AllocWith(op, k, r, ret) ==
  /\ kernels' = [kernels EXCEPT ![k].ds = r.ds]
  /\ ctxs' = [ctxs EXCEPT ![kernels[k].shared] = r.ctx]
  /\ last' = [Ran(op, k, 0, ret) EXCEPT !.dot = r.dot]
  /\ applied' = [applied EXCEPT ![k] = @ \cup {r.dot}]
  /\ AllocFrame

AddWith(k, r) == AllocWith("add", k, r, r.delta)

\* kernels[k].add(id, val)
Add(k, id, val) ==
  /\ last.n < MaxOps
  /\ CanAllocate(k, id)
  /\ AddWith(k, KernelAdd(kernels[k].ds, CtxOf(k), id, val))

KernelDotAddWith(ds, m, val) ==
  [ds |-> MapSet(ds, DotToStr(m.dot), val), ctx |-> m.ctx, dot |-> m.dot]

\* DotKernel.dotAdd on dataStorage and the content of sharedContext.
KernelDotAdd(ds, ctx, id, val) == KernelDotAddWith(ds, MakeDot(ctx, id), val)

\* kernels[k].dotAdd(id, val)
DotAdd(k, id, val) ==
  /\ last.n < MaxOps
  /\ CanAllocate(k, id)
  /\ AllocWith("dotAdd", k, KernelDotAdd(kernels[k].ds, CtxOf(k), id, val), NewKernel)

RmvWith(k, r) ==
  /\ kernels' = [kernels EXCEPT ![k].ds = r.ds]
  /\ last' = Ran("rmv", k, 0, r.delta)
  /\ UNCHANGED ctxs
  /\ HeapFrame

\* kernels[k].rmv(sel)
Rmv(k, sel) ==
  /\ last.n < MaxOps
  /\ RmvWith(k, KernelRmv(kernels[k].ds, sel))

\* A faulty context join: the union is written into both context objects.
JoinIntoBoth(k, o) ==
  [ctxs EXCEPT ![kernels[k].shared] = ContextJoin(CtxOf(k), CtxOf(o)),
               ![kernels[o].shared] = ContextJoin(CtxOf(k), CtxOf(o))]

\* sharedContext.join(other.sharedContext): nothing when both are one object.
HeapContextJoin(k, o) ==
  IF kernels[k].shared = kernels[o].shared THEN ctxs
  ELSE [ctxs EXCEPT ![kernels[k].shared] = ContextJoin(CtxOf(k), CtxOf(o))]

\* kernels[k].join(kernels[o]); k = o is the early return.
Join(k, o) ==
  /\ last.n < MaxOps
  /\ IF k = o THEN UNCHANGED <<kernels, ctxs>>
     ELSE /\ kernels' = [kernels EXCEPT
                           ![k].ds = JoinDS(kernels[k].ds, CtxOf(k), kernels[o].ds, CtxOf(o))]
          /\ ctxs' = HeapContextJoin(k, o)
  /\ last' = Ran("join", k, o, NewKernel)
  /\ HeapFrame

\* kernels[k].join(delta), delta being the kernel the last add or rmv
\* returned.
JoinDelta(k) ==
  /\ last.n < MaxOps
  /\ last.op \in {"add", "rmv"}
  /\ kernels' = [kernels EXCEPT
                   ![k].ds = JoinDS(kernels[k].ds, CtxOf(k), last.ret.ds, last.ret.ctx)]
  /\ ctxs' = [ctxs EXCEPT ![kernels[k].shared] = ContextJoin(CtxOf(k), last.ret.ctx)]
  /\ last' = Ran("joinDelta", k, 0, last.ret)
  /\ HeapFrame

DeepJoinWith(k, o, r) ==
  /\ kernels' = [kernels EXCEPT ![k].ds = r.ds]
  /\ ctxs' = IF r.ok THEN HeapContextJoin(k, o) ELSE ctxs

\* kernels[k].deepJoin(kernels[o]); k = o is the early return.
DeepJoin(k, o) ==
  /\ last.n < MaxOps
  /\ IF k = o THEN UNCHANGED <<kernels, ctxs>>
     ELSE DeepJoinWith(k, o, DeepJoinDS(kernels[k].ds, CtxOf(k), kernels[o].ds, CtxOf(o)))
  /\ last' = Ran("deepJoin", k, o, NewKernel)
  /\ HeapFrame

\* A faulty clone: the copy always points at the original's sharedContext.
CloneLinked(k, c) == kernels[k].shared

\* A faulty clone: the copy always takes its cloned contextBase as
\* sharedContext.
CloneDetached(k, c) == c

\* The sharedContext of the clone c of kernel k: its own cloned contextBase
\* when k owns its context, else the object k points to.
CloneShared(k, c) == IF kernels[k].shared = k THEN c ELSE kernels[k].shared

\* kernels[k].clone(): the copy gets a cloned contextBase, and either that
\* clone or the same shared object as its sharedContext.
Clone(k) ==
  /\ last.n < MaxOps
  /\ Len(kernels) < MaxKernels
  /\ kernels' = Append(kernels,
                       [ds |-> kernels[k].ds,
                        shared |-> CloneShared(k, Len(kernels) + 1)])
  /\ ctxs' = [ctxs EXCEPT ![Len(kernels) + 1] = ctxs[k]]
  /\ last' = Ran("clone", k, Len(kernels) + 1, NewKernel)
  /\ HeapFrame

Next ==
  \/ \E k \in 1..Len(kernels), id \in HeapIds, val \in Values : Add(k, id, val)
  \/ \E k \in 1..Len(kernels), id \in HeapIds, val \in Values : DotAdd(k, id, val)
  \/ \E k \in 1..Len(kernels), sel \in HeapSelectors : Rmv(k, sel)
  \/ \E k, o \in 1..Len(kernels) : Join(k, o)
  \/ \E k \in 1..Len(kernels) : JoinDelta(k)
  \/ \E k, o \in 1..Len(kernels) : DeepJoin(k, o)
  \/ \E k \in 1..Len(kernels) : Clone(k)

Spec == Init /\ [][Next]_vars

(***************************************************************************)
(* SpecCtx: two DotContext objects, 1 and 2, and two kernels constructed   *)
(* over object 1.  The contexts are driven directly (makeDot, insertDot    *)
(* with either flag, compact, join) and through the kernels (add, dotAdd,  *)
(* join, deepJoin).  applied[c] keeps, for context c, the dots makeDot has *)
(* issued, how many calls each id has had, and whether the context has     *)
(* been changed by anything but makeDot.                                   *)
(***************************************************************************)
CtxObjs == {1, 2}

CtxIds == {IdA, IdA1}

MaxCtxOps == 3

MaxCtxCounter == 3

CtxDots == {DotToStr(Dot(id, c)) : id \in CtxIds, c \in 1..MaxCtxCounter}

\* Dots handed to insertDot.
InsertedDots == {DotToStr(Dot(IdA, 1)), DotToStr(Dot(IdA, 2)), DotToStr(Dot(IdA1, 2))}

NoIssue == [pure |-> TRUE, issued |-> {}, calls |-> [id \in CtxIds |-> 0]]

CtxInit ==
  /\ ctxs = [c \in CtxObjs |-> NewContext]
  /\ kernels = [k \in 1..2 |-> [ds |-> EmptyMap, shared |-> 1]]
  /\ applied = [c \in CtxObjs |-> NoIssue]
  /\ last = [op |-> "new", c |-> 0, o |-> 0, n |-> 0, dot |-> NoDot, wasIn |-> FALSE,
             preKernels |-> kernels, preCtxs |-> ctxs, preIssued |-> applied]
  /\ regs = 0 /\ deltas = 0 /\ warm = 0 /\ opIn = 0 /\ opOut = 0

CtxFrame == UNCHANGED <<regs, deltas, warm, opIn, opOut>>

\* The record of the call just made on object c (a context or a kernel)
\* with argument o: the dot it returned and whether that dot was a member
\* before the call, and the kernels, contexts and issued dots as they were.
Called(op, c, o, dot, wasIn) ==
  [op |-> op, c |-> c, o |-> o, n |-> last.n + 1, dot |-> dot, wasIn |-> wasIn,
   preKernels |-> kernels, preCtxs |-> ctxs, preIssued |-> applied]

\* Context c has been changed by a call other than makeDot.
Touched(c) == [applied EXCEPT ![c].pure = FALSE]

\* makeDot on context c has returned dot.
Issued(c, dot) ==
  [applied EXCEPT ![c].issued = @ \cup {dot}, ![c].calls[dot.id] = @ + 1]

CanIssue(c, id) ==
  IF id \in DOMAIN ctxs[c].cc THEN ctxs[c].cc[id] < MaxCtxCounter ELSE TRUE

CtxMakeDotWith(c, m) ==
  /\ ctxs' = [ctxs EXCEPT ![c] = m.ctx]
  /\ applied' = Issued(c, m.dot)
  /\ last' = Called("makeDot", c, 0, m.dot, DotIn(ctxs[c], DotToStr(m.dot)))
  /\ UNCHANGED kernels
  /\ CtxFrame

\* ctxs[c].makeDot(id)
CtxMakeDot(c, id) ==
  /\ last.n < MaxCtxOps
  /\ CanIssue(c, id)
  /\ CtxMakeDotWith(c, MakeDot(ctxs[c], id))

\* ctxs[c].insertDot(s, compactNow)
CtxInsertDot(c, s, compactNow) ==
  /\ last.n < MaxCtxOps
  /\ ctxs' = [ctxs EXCEPT ![c] = InsertDot(ctxs[c], s, compactNow)]
  /\ applied' = Touched(c)
  /\ last' = Called("insertDot", c, 0, NoDot, FALSE)
  /\ UNCHANGED kernels
  /\ CtxFrame

\* ctxs[c].compact()
CtxCompact(c) ==
  /\ last.n < MaxCtxOps
  /\ ctxs' = [ctxs EXCEPT ![c] = Compact(ctxs[c])]
  /\ applied' = Touched(c)
  /\ last' = Called("compact", c, 0, NoDot, FALSE)
  /\ UNCHANGED kernels
  /\ CtxFrame

\* A faulty join of contexts: no early return when c = o.
CtxJoinAlways(c, o) ==
  /\ last.n < MaxCtxOps
  /\ ctxs' = [ctxs EXCEPT ![c] = ContextJoin(ctxs[c], ctxs[o])]
  /\ applied' = Touched(c)
  /\ last' = Called("ctxJoin", c, o, NoDot, FALSE)
  /\ UNCHANGED kernels
  /\ CtxFrame

\* ctxs[c].join(ctxs[o]); c = o is the early return.
CtxJoin(c, o) ==
  /\ last.n < MaxCtxOps
  /\ ctxs' = IF c = o THEN ctxs ELSE [ctxs EXCEPT ![c] = ContextJoin(ctxs[c], ctxs[o])]
  /\ applied' = IF c = o THEN applied ELSE Touched(c)
  /\ last' = Called("ctxJoin", c, o, NoDot, FALSE)
  /\ UNCHANGED kernels
  /\ CtxFrame

KAllocWith(op, k, r) ==
  /\ kernels' = [kernels EXCEPT ![k].ds = r.ds]
  /\ ctxs' = [ctxs EXCEPT ![kernels[k].shared] = r.ctx]
  /\ applied' = Issued(kernels[k].shared, r.dot)
  /\ last' = Called(op, k, 0, r.dot, DotIn(CtxOf(k), DotToStr(r.dot)))
  /\ CtxFrame

\* kernels[k].add(id, val)
KAdd(k, id, val) ==
  /\ last.n < MaxCtxOps
  /\ CanIssue(kernels[k].shared, id)
  /\ KAllocWith("add", k, KernelAdd(kernels[k].ds, CtxOf(k), id, val))

\* kernels[k].dotAdd(id, val)
KDotAdd(k, id, val) ==
  /\ last.n < MaxCtxOps
  /\ CanIssue(kernels[k].shared, id)
  /\ KAllocWith("dotAdd", k, KernelDotAdd(kernels[k].ds, CtxOf(k), id, val))

\* kernels[k].join(kernels[o]); k = o is the early return.
KJoin(k, o) ==
  /\ last.n < MaxCtxOps
  /\ IF k = o THEN UNCHANGED <<kernels, ctxs>>
     ELSE /\ kernels' = [kernels EXCEPT
                           ![k].ds = JoinDS(kernels[k].ds, CtxOf(k), kernels[o].ds, CtxOf(o))]
          /\ ctxs' = HeapContextJoin(k, o)
  /\ applied' = IF kernels[k].shared = kernels[o].shared THEN applied
                ELSE Touched(kernels[k].shared)
  /\ last' = Called("join", k, o, NoDot, FALSE)
  /\ CtxFrame

\* kernels[k].deepJoin(kernels[o]); k = o is the early return.
KDeepJoin(k, o) ==
  /\ last.n < MaxCtxOps
  /\ IF k = o THEN UNCHANGED <<kernels, ctxs>>
     ELSE DeepJoinWith(k, o, DeepJoinDS(kernels[k].ds, CtxOf(k), kernels[o].ds, CtxOf(o)))
  /\ applied' = IF kernels[k].shared = kernels[o].shared THEN applied
                ELSE Touched(kernels[k].shared)
  /\ last' = Called("deepJoin", k, o, NoDot, FALSE)
  /\ CtxFrame

CtxNext ==
  \/ \E c \in CtxObjs, id \in CtxIds : CtxMakeDot(c, id)
  \/ \E c \in CtxObjs, s \in InsertedDots, compactNow \in BOOLEAN : CtxInsertDot(c, s, compactNow)
  \/ \E c \in CtxObjs : CtxCompact(c)
  \/ \E c, o \in CtxObjs : CtxJoin(c, o)
  \/ \E k \in 1..2, id \in CtxIds, val \in Values : KAdd(k, id, val)
  \/ \E k \in 1..2, id \in CtxIds, val \in Values : KDotAdd(k, id, val)
  \/ \E k, o \in 1..2 : KJoin(k, o)
  \/ \E k, o \in 1..2 : KDeepJoin(k, o)

SpecCtx == CtxInit /\ [][CtxNext]_vars

\* The dots the replicas of SpecReg can allocate, as keys.
RegDots ==
  {DotToStr(Dot(id, c)) : id \in {IdA, IdA1, IdB}, c \in 1..(PreWrites + MaxDeltas + 1)}

\* Same dataStorage (dots and values), same context membership, same read().
SameState(k1, k2) ==
  /\ k1.ds = k2.ds
  /\ \A s \in RegDots : DotIn(k1.ctx, s) = DotIn(k2.ctx, s)
  /\ RegRead(k1) = RegRead(k2)

\* C1: strong eventual consistency.  Two replicas that have applied the
\* same set of deltas (their own mutations included), in whatever order and
\* however often, hold the same dataStorage, the same context membership
\* and the same read() set.
C1_Convergence ==
  \A r1, r2 \in Replicas :
    applied[r1] = applied[r2] => SameState(regs[r1].k, regs[r2].k)

\* The join of the last step delivered a write of another replica that has
\* not moved since, to a replica that had not moved since that write.
FreshDelivery ==
  /\ last.op = "join"
  /\ deltas[last.i].kind = "write"
  /\ deltas[last.i].by # last.r
  /\ regs[deltas[last.i].by].k = deltas[last.i].post
  /\ deltas[last.i].before[last.r] = last.pre

\* C2: causal overwrite.  When the writer's context, at the moment of
\* d = write(v), contained every dot then held by the other replica, then
\* after that replica joins d both replicas read exactly {v}.
C2_CausalOverwrite ==
  (/\ FreshDelivery
   /\ \A s \in DOMAIN last.pre.ds :
        DotIn(deltas[last.i].before[deltas[last.i].by].ctx, s))
  => /\ RegRead(regs[deltas[last.i].by].k) = {deltas[last.i].val}
     /\ RegRead(regs[last.r].k) = {deltas[last.i].val}

\* Deltas i (of replica 1) and j (of replica 2) are concurrent writes, and
\* each replica has since joined the other's delta and nothing else.
CrossJoined(i, j) ==
  /\ deltas[i].kind = "write" /\ deltas[i].by = 1
  /\ deltas[j].kind = "write" /\ deltas[j].by = 2
  /\ j \notin deltas[i].seen /\ i \notin deltas[j].seen
  /\ applied[1] = deltas[i].seen \cup {i, j}
  /\ applied[2] = deltas[j].seen \cup {i, j}

\* C3: concurrent writes both survive.  After two replicas with distinct
\* ids have each written without knowing the other's write and have then
\* joined each other's delta, they read the same set, which holds both
\* written values.
C3_ConcurrentWritesSurvive ==
  \A i, j \in 1..Len(deltas) :
    CrossJoined(i, j) =>
      /\ RegRead(regs[1].k) = RegRead(regs[2].k)
      /\ {deltas[i].val, deltas[j].val} \subseteq RegRead(regs[1].k)

(***************************************************************************)
(* Claims on one mutation (SpecMut)                                        *)
(***************************************************************************)
\* The counter sharedContext.makeDot(id) hands out on the input kernel.
NextCounter(id) ==
  IF id \in DOMAIN opIn.ctx.cc THEN opIn.ctx.cc[id] + 1 ELSE 1

MutUniverse == {DotToStr(Dot(id, c)) : id \in MutIds, c \in 1..(OpHist + 3)}

\* C4: local write collapse.  Whatever the register held (nothing, one
\* value, several values), right after write(v) its read() is exactly {v}
\* and its dataStorage holds exactly one dot, the one just allocated.
C4_WriteCollapses ==
  opOut.op = "write" =>
    /\ RegRead(opOut.post) = {opOut.val}
    /\ DOMAIN opOut.post.ds = {DotToStr(Dot(opOut.id, NextCounter(opOut.id)))}

\* A write on a register that held several values.
C4_Witness ==
  /\ opOut.op = "write"
  /\ Cardinality(DOMAIN opIn.ds) >= 2
  /\ Cardinality(RegRead(opIn)) >= 2

\* C8: delta completeness.  For add, rmv (each mode), write and reset,
\* joining the returned delta into an independent copy of the pre-state
\* gives the dataStorage and the context (compact causal context and dot
\* cloud) of the mutated kernel.
C8_DeltaComplete ==
  opOut.op \in {"add", "rmv", "write", "reset"} =>
    KernelJoin(opIn, opOut.delta) = opOut.post

\* C9: add(id, v) allocates d = makeDot(id), stores d -> v leaving every
\* other entry as it was, and returns a kernel whose dataStorage is exactly
\* {d -> v} and whose context has d as its only member.
C9_AddDelta ==
  opOut.op = "add" =>
    /\ opOut.dot = Dot(opOut.id, NextCounter(opOut.id))
    /\ DOMAIN opOut.post.ds = (DOMAIN opIn.ds) \cup {DotToStr(opOut.dot)}
    /\ opOut.post.ds[DotToStr(opOut.dot)] = opOut.val
    /\ \A s \in (DOMAIN opIn.ds) \ {DotToStr(opOut.dot)} : opOut.post.ds[s] = opIn.ds[s]
    /\ DOMAIN opOut.delta.ds = {DotToStr(opOut.dot)}
    /\ opOut.delta.ds[DotToStr(opOut.dot)] = opOut.val
    /\ \A s \in MutUniverse : DotIn(opOut.delta.ctx, s) <=> s = DotToStr(opOut.dot)

\* An add that allocated a dot with a two-digit counter beside other
\* stored dots.
C9_Witness ==
  /\ opOut.op = "add"
  /\ opOut.dot.counter >= 10
  /\ Cardinality(DOMAIN opIn.ds) >= 2

\* Structural equality of two payloads: the same number, or objects with
\* the same properties whatever their order.
StructEq(v, w) ==
  /\ v.k = w.k
  /\ v.n = w.n
  /\ {v.o[i] : i \in 1..Len(v.o)} = {w.o[i] : i \in 1..Len(w.o)}

\* The dots the claim says rmv(sel) removes.
ShouldRemove(ds, sel) ==
  IF sel.kind = "null" THEN DOMAIN ds
  ELSE IF sel.kind = "dot" THEN {s \in DOMAIN ds : ToDot(s) = sel.dot}
  ELSE {s \in DOMAIN ds : StructEq(ds[s], sel.val)}

\* C10: rmv(selector) removes exactly: every dot for null; the named dot,
\* if stored, for a dot-like selector; every dot whose value is
\* structurally equal to the selector otherwise.  All other dots keep
\* their values.
C10_RmvRemovesExactly ==
  opOut.op = "rmv" =>
    /\ DOMAIN opOut.post.ds = (DOMAIN opIn.ds) \ ShouldRemove(opIn.ds, opOut.sel)
    /\ \A s \in DOMAIN opOut.post.ds : opOut.post.ds[s] = opIn.ds[s]

(***************************************************************************)
(* Claims on one join (SpecJoin)                                           *)
(***************************************************************************)
OnlyThisKeys == (DOMAIN opIn.this.ds) \ (DOMAIN opIn.other.ds)

OnlyOtherKeys == (DOMAIN opIn.other.ds) \ (DOMAIN opIn.this.ds)

BothKeys == (DOMAIN opIn.this.ds) \cap (DOMAIN opIn.other.ds)

\* C5: observed-remove join rule.  After A.join(B) the keys of A are the
\* dots only in A that B's context does not know, the dots only in B that
\* A's context did not know, and the dots in both; kept dots carry A's
\* value, imported dots B's.
C5_ObservedRemove ==
  opOut.op = "join" =>
    /\ DOMAIN opOut.post.ds =
         {s \in OnlyThisKeys : ~DotIn(opIn.other.ctx, s)}
           \cup {s \in OnlyOtherKeys : ~DotIn(opIn.this.ctx, s)}
           \cup BothKeys
    /\ \A s \in DOMAIN opOut.post.ds :
         opOut.post.ds[s] = IF s \in DOMAIN opIn.this.ds THEN opIn.this.ds[s]
                            ELSE opIn.other.ds[s]

(***************************************************************************)
(* Claims on the heap of kernels (Spec)                                    *)
(***************************************************************************)
\* C6: no resurrection.  A dot that is a member of a kernel's sharedContext
\* and absent from its dataStorage is still both after a join, a deepJoin
\* or a rmv on that kernel, whatever the other kernel stores; a sequence of
\* such calls therefore never brings the dot back.
C6_NoResurrection ==
  last.op \in {"join", "joinDelta", "deepJoin", "rmv"} =>
    \A s \in HeapDots :
      (DotIn(last.preCtx, s) /\ s \notin DOMAIN last.preDs) =>
        /\ s \notin DOMAIN kernels[last.k].ds
        /\ DotIn(CtxOf(last.k), s)

\* A join or deepJoin whose argument stored a dot the target had seen and
\* did not store.
C6_Witness ==
  /\ last.op \in {"join", "deepJoin"}
  /\ last.k # last.o
  /\ \E s \in DOMAIN kernels[last.o].ds :
       s \notin DOMAIN last.preDs /\ DotIn(last.preCtx, s)

\* C7: kernel anchoring.  After every kernel operation (add, dotAdd, rmv,
\* join, deepJoin with numeric payloads, clone) every key of a kernel's
\* dataStorage is a member of that kernel's sharedContext, for kernels that
\* own their context, for kernels built over a shared one, and for the
\* kernels that add and rmv return.
C7_Anchored ==
  /\ \A k \in 1..Len(kernels) :
       \A s \in DOMAIN kernels[k].ds : DotIn(CtxOf(k), s)
  /\ \A s \in DOMAIN last.ret.ds : DotIn(last.ret.ctx, s)

\* A kernel over a shared context that imported a dot through a join.
C7_Witness ==
  /\ last.op \in {"join", "deepJoin"}
  /\ kernels[last.k].shared # last.k
  /\ (DOMAIN kernels[last.k].ds) \ (DOMAIN last.preDs) # {}

(***************************************************************************)
(* Claims on rmv and its delta (SpecMut)                                   *)
(***************************************************************************)
\* The dots the call of opOut removed from dataStorage.
Removed == (DOMAIN opIn.ds) \ (DOMAIN opOut.post.ds)

\* A kernel, built as createKernel builds one, that stores the dots of T.
Storing(T) == KernelOf([d \in MutDots |-> IF d \in T THEN Num(5) ELSE Absent], 0)

\* other.join(delta) deletes from other exactly the dots of removed.
DeletesExactly(other, delta, removed) ==
  JoinDS(other.ds, other.ctx, delta.ds, delta.ctx)
    = [s \in (DOMAIN other.ds) \ removed |-> other.ds[s]]

\* C11: tombstones and removal delta.  In each mode of rmv the kernel's
\* sharedContext is left as it was (the removed dots stay members), the
\* delta has an empty dataStorage, the members of the delta's context are
\* exactly the removed dots, and joining the delta into another kernel
\* that stores those dots deletes exactly those dots there.
C11_RmvDelta ==
  opOut.op = "rmv" =>
    /\ opOut.post.ctx = opIn.ctx
    /\ \A s \in DOMAIN opIn.ds : DotIn(opOut.post.ctx, s)
    /\ opOut.delta.ds = EmptyMap
    /\ \A s \in MutUniverse : DotIn(opOut.delta.ctx, s) <=> s \in Removed
    /\ \A T \in SUBSET MutDots :
         Removed \subseteq T => DeletesExactly(Storing(T), opOut.delta, Removed)

\* A rmv by value that removed two dots.
C11_Witness ==
  /\ opOut.op = "rmv"
  /\ opOut.sel.kind = "val"
  /\ Cardinality(Removed) >= 2

(***************************************************************************)
(* Lattice laws of join (SpecJoin)                                         *)
(***************************************************************************)
\* C12: join is idempotent.  Performing A.join(B) a second time leaves A's
\* dataStorage and context exactly as the first A.join(B) left them.
C12_JoinIdempotent ==
  opOut.op = "join" => KernelJoin(opOut.post, opIn.other) = opOut.post

\* Same dataStorage entries and same context membership.
SameKernel(k1, k2) ==
  /\ k1.ds = k2.ds
  /\ \A s \in JoinDots : DotIn(k1.ctx, s) = DotIn(k2.ctx, s)

\* Every dot stored by both kernels carries the same value in both.
Agree(k1, k2) ==
  \A s \in (DOMAIN k1.ds) \cap (DOMAIN k2.ds) : k1.ds[s] = k2.ds[s]

\* C13: join is commutative.  For two anchored kernels A and B that agree
\* on the values of the dots both store, A after A.join(B) and B after
\* B.join(A) have the same dataStorage entries and context membership.
C13_JoinCommutative ==
  (opOut.op = "join" /\ Agree(opIn.this, opIn.other)) =>
    SameKernel(opOut.post, KernelJoin(opIn.other, opIn.this))

\* C14: join is associative.  For three anchored kernels in which a dot
\* has one value wherever it is stored, joining B then C into a copy of A
\* and joining into a copy of A the join of C into a copy of B give the
\* same dataStorage entries and the same context membership.
C14_JoinAssociative ==
  (opOut.doneL /\ opOut.doneR) => SameKernel(opOut.left, opOut.right)

(***************************************************************************)
(* Claims on contexts and the kernels built over them (SpecCtx)            *)
(***************************************************************************)
\* C15: self-join identity.  X.join(X) and X.deepJoin(X) on a kernel and
\* C.join(C) on a context change nothing: every dataStorage, compact
\* causal context and dot cloud is as before, not even compacted.
C15_SelfJoin ==
  (last.op \in {"join", "deepJoin", "ctxJoin"} /\ last.c = last.o) =>
    /\ kernels = last.preKernels
    /\ ctxs = last.preCtxs

\* A self-join of a context that compact() would change.
C15_Witness ==
  /\ last.op = "ctxJoin"
  /\ last.c = last.o
  /\ Compact(ctxs[last.c]) # ctxs[last.c]

\* C16: makeDot freshness.  In every context state reached through
\* makeDot, insertDot (either flag), compact and join, the dot makeDot(id)
\* returns was not a member of the context just before the call.
C16_MakeDotFresh ==
  last.op \in {"makeDot", "add", "dotAdd"} => ~last.wasIn

\* The context the last makeDot ran on: the one named, or the
\* sharedContext of the kernel that called add or dotAdd.
LastCtx == IF last.op = "makeDot" THEN last.c ELSE kernels[last.c].shared

\* The last call was a makeDot (direct, or inside add or dotAdd) on a
\* context that has only ever been changed by makeDot.
PureMakeDot ==
  /\ last.op \in {"makeDot", "add", "dotAdd"}
  /\ applied[LastCtx].pure

\* C17: makeDot contiguity.  On a context that starts empty and is changed
\* by makeDot only, the k-th call for an id returns (id, k), whatever calls
\* were made for other ids: the dots issued for each id are 1..k with no
\* gap and no repeat, and after the call the compact causal context maps
\* the id to the returned counter.
C17_MakeDotContiguous ==
  PureMakeDot =>
    /\ last.dot.counter = applied[LastCtx].calls[last.dot.id]
    /\ ctxs[LastCtx].cc[last.dot.id] = last.dot.counter
    /\ applied[LastCtx].issued =
         UNION {{Dot(id, j) : j \in 1..applied[LastCtx].calls[id]} : id \in CtxIds}

\* A second call for one id after a call for another id.
C17_Witness ==
  /\ PureMakeDot
  /\ last.dot.counter >= 2
  /\ \E id \in CtxIds \ {last.dot.id} : applied[LastCtx].calls[id] >= 1

\* C18: shared-context uniqueness.  With several kernels constructed over
\* one DotContext, whatever that context already holds, no add or dotAdd
\* allocates a dot an earlier call on that context allocated, and the
\* allocated dot is at once a member of the context every one of those
\* kernels sees, and stored by the kernel that allocated it.
C18_SharedUnique ==
  last.op \in {"add", "dotAdd"} =>
    /\ last.dot \notin last.preIssued[LastCtx].issued
    /\ \A k \in 1..Len(kernels) :
         kernels[k].shared = LastCtx => DotIn(CtxOf(k), DotToStr(last.dot))
    /\ DotToStr(last.dot) \in DOMAIN kernels[last.c].ds

\* An allocation by one kernel for an id the other kernel, over the same
\* context, has already allocated for.
C18_Witness ==
  /\ last.op \in {"add", "dotAdd"}
  /\ \E k \in 1..Len(kernels) :
       /\ k # last.c
       /\ kernels[k].shared = LastCtx
       /\ \E s \in DOMAIN kernels[k].ds : ToDot(s).id = last.dot.id

\* C19: MVReg.reset() allocates no dot.  The register's context is left
\* as it was, its dataStorage is emptied so that read() is empty, and the
\* delta has an empty dataStorage and a context whose members are exactly
\* the dots stored before the call.
C19_Reset ==
  opOut.op = "reset" =>
    /\ opOut.post.ctx = opIn.ctx
    /\ opOut.post.ds = EmptyMap
    /\ RegRead(opOut.post) = {}
    /\ opOut.delta.ds = EmptyMap
    /\ \A s \in MutUniverse : DotIn(opOut.delta.ctx, s) <=> s \in DOMAIN opIn.ds

\* A reset of a register that held several values.
C19_Witness ==
  /\ opOut.op = "reset"
  /\ Cardinality(RegRead(opIn)) >= 2

(***************************************************************************)
(* Reset against a concurrent write (SpecReg)                              *)
(***************************************************************************)
\* Delta i is a reset and delta j a write of the other replica, neither
\* made knowing the other, and each replica has since joined the other's
\* delta and nothing else.
ResetVsWrite(i, j) ==
  /\ deltas[i].kind = "reset" /\ deltas[j].kind = "write"
  /\ deltas[i].by # deltas[j].by
  /\ j \notin deltas[i].seen /\ i \notin deltas[j].seen
  /\ applied[deltas[i].by] = deltas[i].seen \cup {i, j}
  /\ applied[deltas[j].by] = deltas[j].seen \cup {i, j}

\* C20: a reset removes only what the resetter observed.  After a reset
\* and a concurrent write of v by the other replica, once each replica has
\* joined the other's delta (in either order) both read exactly {v}: the
\* concurrent write survives and no earlier value does.
C20_ResetKeepsConcurrentWrite ==
  \A i, j \in 1..Len(deltas) :
    ResetVsWrite(i, j) =>
      \A r \in Replicas : RegRead(regs[r].k) = {deltas[j].val}

\* Such a reset by a replica that held a value, against a write by a
\* replica that held one too.
C20_Witness ==
  \E i, j \in 1..Len(deltas) :
    /\ ResetVsWrite(i, j)
    /\ deltas[i].before[deltas[i].by].ds # EmptyMap
    /\ deltas[j].before[deltas[j].by].ds # EmptyMap

(***************************************************************************)
(* deepJoin (SpecJoin)                                                     *)
(***************************************************************************)
\* Math.max of two numeric payloads.
MaxNum(v, w) == IF v.n >= w.n THEN v ELSE w

\* Dots stored by both inputs with numeric payloads that differ.
Differing ==
  {s \in (DOMAIN opIn.this.ds) \cap (DOMAIN opIn.other.ds) :
     /\ opIn.this.ds[s].k = "num" /\ opIn.other.ds[s].k = "num"
     /\ opIn.this.ds[s] # opIn.other.ds[s]}

\* C21: deepJoin merges the payloads of common dots.  A dot stored by both
\* kernels with differing numeric values is, after A.deepJoin(B), still
\* stored in A with the maximum of the two values.
C21_DeepJoinMerges ==
  opOut.op = "deepJoin" =>
    \A s \in Differing :
      /\ s \in DOMAIN opOut.post.ds
      /\ opOut.post.ds[s] = MaxNum(opIn.this.ds[s], opIn.other.ds[s])

\* C22: deepJoin coincides with join.  For two kernels in which every dot
\* stored by both has equal values, A.deepJoin(B) completes and leaves
\* exactly the dataStorage and context that A.join(B) leaves.
C22_DeepJoinLikeJoin ==
  (opOut.op = "deepJoin" /\ Agree(opIn.this, opIn.other)) =>
    /\ opOut.ok
    /\ opOut.post = KernelJoin(opIn.this, opIn.other)

\* C23: deepJoin with numeric payloads satisfies the lattice laws.  A
\* second A.deepJoin(B) changes nothing; A.deepJoin(B) and B.deepJoin(A)
\* give the same dataStorage and context membership; and the grouping of
\* three deepJoins does not affect the result.
C23_DeepJoinLattice ==
  /\ opOut.op = "twice" => opOut.y = opOut.x
  /\ opOut.op \in {"swap", "group"} => SameKernel(opOut.x, opOut.y)

(***************************************************************************)
(* clone (Spec)                                                            *)
(***************************************************************************)
HeapOps == {"add", "dotAdd", "rmv", "join", "joinDelta", "deepJoin"}

\* Kernel k's sharedContext is its own contextBase.
Owns(k) == kernels[k].shared = k

\* The step is an operation on kernel k.
OpOn(k) == last'.n = last.n + 1 /\ last'.op \in HeapOps /\ last'.k = k

\* C24: cloning a kernel that owns its context yields a kernel with equal
\* dataStorage and equal context content that owns its context, an object
\* other than the original's; and from then on an add, rmv or join on one
\* of two kernels that own their contexts leaves the dataStorage and the
\* context of the other unchanged.
C24_CloneOwned ==
  /\ []((last.op = "clone" /\ Owns(last.k)) =>
          /\ kernels[last.o].ds = kernels[last.k].ds
          /\ CtxOf(last.o) = CtxOf(last.k)
          /\ Owns(last.o)
          /\ kernels[last.o].shared # kernels[last.k].shared)
  /\ [][\A k, c \in 1..Len(kernels) :
          (k # c /\ Owns(k) /\ Owns(c) /\ OpOn(k)) =>
            /\ kernels'[c] = kernels[c]
            /\ ctxs'[c] = ctxs[c]]_vars

\* A clone of a kernel that owns its context has been made and an
\* operation on the clone has changed what the clone stores.
C24_Witness ==
  \E c \in 3..Len(kernels) :
    /\ Owns(c)
    /\ last.op \in HeapOps /\ last.k = c
    /\ kernels[c].ds # last.preDs
    /\ \E k \in 1..2 : Owns(k) /\ kernels[k].ds # EmptyMap

\* Kernels k and o are two kernels whose sharedContext is one object.
Linked(k, o) == k # o /\ kernels[k].shared = kernels[o].shared

\* C25: cloning a kernel built over a supplied context keeps the link.
\* The clone's sharedContext is the original's; a dot allocated through
\* one of two linked kernels is at once a member of the other's context
\* and was never allocated through the other; and an operation on one
\* leaves the other's dataStorage unchanged.
C25_CloneLinked ==
  /\ []((last.op = "clone" /\ ~Owns(last.k)) =>
          /\ kernels[last.o].shared = kernels[last.k].shared
          /\ kernels[last.o].ds = kernels[last.k].ds)
  /\ [](last.op \in {"add", "dotAdd"} =>
          \A o \in 1..Len(kernels) :
            Linked(last.k, o) =>
              /\ DotInWith(CtxOf(o), last.dot)
              /\ last.dot \notin applied[o])
  /\ [][\A k, o \in 1..Len(kernels) :
          (Linked(k, o) /\ OpOn(k)) => kernels'[o].ds = kernels[o].ds]_vars

\* A kernel over a supplied context allocated a dot and was cloned, and a
\* dot has just been allocated through the clone.
C25_Witness ==
  \E c \in 3..Len(kernels), k \in 1..2 :
    /\ Linked(c, k)
    /\ applied[k] # {}
    /\ last.op \in {"add", "dotAdd"} /\ last.k = c
    /\ kernels[c].ds # kernels[k].ds

(***************************************************************************)
(* compact (SpecCompact)                                                   *)
(***************************************************************************)
\* The elements of a sequence.
Range(seq) == {seq[i] : i \in 1..Len(seq)}

\* A compact causal context and an ordered cloud as a context.
AsContext(c) == [cc |-> c.cc, dc |-> Range(c.order)]

\* CCC[id], an unset entry read as 0.
CCOr0(cc, id) == IF id \in DOMAIN cc THEN cc[id] ELSE 0

\* Every cloud dot lies strictly beyond the successor of its id's entry.
Compacted(ctx) ==
  \A s \in ctx.dc : ToDot(s).counter > CCOr0(ctx.cc, ToDot(s).id) + 1

\* CCC = {}, DC = {a:2, a:1} in that insertion order.
GapFirst ==
  [cc |-> EmptyMap, order |-> <<DotToStr(Dot(IdA, 2)), DotToStr(Dot(IdA, 1))>>]

\* C26: compaction invariant.  After compact(), whatever the compact
\* causal context and the cloud and its iteration order were, every
\* remaining cloud dot (id, c) has c > CCC[id] + 1, an unset CCC[id] read
\* as 0; from CCC = {} and DC = {a:2, a:1} the result is CCC = {a:2} and
\* an empty cloud.
C26_CompactionInvariant ==
  opOut.op = "compact" =>
    /\ Compacted(AsContext(opOut))
    /\ opIn = GapFirst =>
         /\ opOut.cc = MapSet(EmptyMap, IdA, 2)
         /\ opOut.order = <<>>

\* compact() has run on CCC = {}, DC = {a:2, a:1}.
C26_Witness == opOut.op = "compact" /\ opIn = GapFirst

\* The dots dotIn is asked about: every id, counters up to one beyond the
\* highest of the inputs.
ProbeDots ==
  {DotToStr(Dot(id, c)) : id \in CompactIds, c \in 1..(MaxCloudCounter + MaxCC + 1)}

\* C27: compaction preserves semantics.  For every dot d, dotIn(d) gives
\* the same answer immediately before and immediately after compact().
C27_CompactPreserves ==
  opOut.op = "compact" =>
    \A s \in ProbeDots : DotIn(AsContext(opOut), s) = DotIn(AsContext(opIn), s)

\* compact() absorbed some cloud dots into the compact causal context and
\* left others in the cloud.
C27_Witness ==
  /\ opOut.op = "compact"
  /\ opOut.cc # opIn.cc
  /\ opOut.order # <<>>
  /\ Len(opOut.order) < Len(opIn.order)

(***************************************************************************)
(* Growth of a context (SpecCtx)                                           *)
(***************************************************************************)
\* C28: context membership is monotone.  A dot that dotIn reports on a
\* context before a makeDot, an insertDot (compacting or not), a compact
\* or a join with another context, made directly or through a kernel, is
\* still reported after it.
C28_MembershipMonotone ==
  \A c \in CtxObjs, s \in CtxDots :
    DotIn(last.preCtxs[c], s) => DotIn(ctxs[c], s)

\* A context with a member the other lacks has just been joined with the
\* other, which had a member of its own.
C28_Witness ==
  /\ last.op = "ctxJoin" /\ last.c # last.o
  /\ \E s \in CtxDots :
       DotIn(last.preCtxs[last.c], s) /\ ~DotIn(last.preCtxs[last.o], s)
  /\ \E s \in CtxDots :
       DotIn(last.preCtxs[last.o], s) /\ ~DotIn(last.preCtxs[last.c], s)

(***************************************************************************)
(* join of contexts (SpecUnion)                                            *)
(***************************************************************************)
\* The Dot objects dotIn is asked about.
Probes == {Dot(id, c) : id \in CompactIds, c \in 1..(MaxCloudCounter + MaxCC + 1)}

\* C29: context join is set union.  After A.join(B), A and B distinct,
\* dotIn(d) holds on A iff it held on A before or holds on B, for every
\* dot d; B's compact causal context and cloud are unchanged; and A
\* satisfies the compaction invariant.
C29_ContextJoinUnion ==
  opOut.op = "join" =>
    /\ \A d \in Probes :
         DotInWith(opOut.a, d) <=> (DotInWith(opIn.a, d) \/ DotInWith(opIn.b, d))
    /\ opOut.b = opIn.b
    /\ Compacted(opOut.a)

\* Members of a context.
Members(ctx) == {d \in Probes : DotInWith(ctx, d)}

\* A.join(B) has run on contexts each with a member the other lacks, and
\* it closed a gap: a cloud dot of one side was absorbed thanks to the
\* other side.
C29_Witness ==
  /\ opOut.op = "join"
  /\ Members(opIn.a) \ Members(opIn.b) # {}
  /\ Members(opIn.b) \ Members(opIn.a) # {}
  /\ opIn.a.dc # {} /\ opOut.a.dc = {}
  /\ Compact(opIn.a) = opIn.a

\* C30: context join is commutative.  For two compacted contexts A and
\* B, joining B into a copy of A and joining A into a copy of B give the
\* same compact causal context map and the same dot cloud.
C30_ContextJoinCommutative ==
  (opOut.op = "join" /\ Compacted(opIn.a) /\ Compacted(opIn.b)) =>
    /\ opOut.a.cc = opOut.ba.cc
    /\ opOut.a.dc = opOut.ba.dc

\* Both joins have run on two compacted contexts that differ in their
\* maps and in their clouds.
C30_Witness ==
  /\ opOut.op = "join"
  /\ Compacted(opIn.a) /\ Compacted(opIn.b)
  /\ opIn.a.cc # opIn.b.cc /\ DOMAIN opIn.a.cc # DOMAIN opIn.b.cc
  /\ opIn.a.dc # {} /\ opIn.b.dc # {} /\ opIn.a.dc # opIn.b.dc
  /\ opOut.a # opIn.a /\ opOut.a # opIn.b

(***************************************************************************)
(* Lattice laws of the join of contexts (SpecLattice)                      *)
(***************************************************************************)
\* C31: context join is associative.  For three compacted contexts,
\* joining B and then C into a copy of A gives the same compact causal
\* context map and dot cloud as joining into a copy of A the result of
\* joining C into a copy of B.
C31_ContextJoinAssociative ==
  opOut.op = "group" => (opOut.x.cc = opOut.y.cc /\ opOut.x.dc = opOut.y.dc)

\* The two groupings have run on three contexts that are pairwise
\* different, each with a cloud dot, and the result has no cloud left.
C31_Witness ==
  /\ opOut.op = "group"
  /\ opIn.a # opIn.b /\ opIn.b # opIn.c /\ opIn.a # opIn.c
  /\ opIn.a.dc # {} /\ opIn.b.dc # {} /\ opIn.c.dc # {}
  /\ opOut.x.dc = {}

\* C32: context join is idempotent.  For a compacted context A, joining
\* into A a separate copy of A leaves A's compact causal context map and
\* dot cloud unchanged, and so does joining the same context B into A a
\* second time.
C32_ContextJoinIdempotent ==
  opOut.op = "twice" =>
    /\ opOut.x.cc = opIn.a.cc /\ opOut.x.dc = opIn.a.dc
    /\ opOut.z.cc = opOut.y.cc /\ opOut.z.dc = opOut.y.dc

\* A, with an entry and a cloud dot, was joined with its copy, and B,
\* whose cloud dot the first join absorbed, was joined twice.
C32_Witness ==
  /\ opOut.op = "twice"
  /\ opIn.a.cc # EmptyMap /\ opIn.a.dc # {}
  /\ opIn.b.dc # {} /\ opIn.b.dc \cap opOut.y.dc = {}
  /\ opOut.y # opIn.a /\ opOut.y # opIn.b

(***************************************************************************)
(* Dot (SpecDot)                                                           *)
(***************************************************************************)
\* C33: constructing a Dot with an empty id or with a counter that is not
\* an integer fails; the constructor produces no Dot carrying such fields.
C33_ConstructorRejects ==
  (opOut.op = "construct" /\ (opIn.id = <<>> \/ ~opIn.counter.int)) => ~opOut.ok

\* A string of the form id:integer: one ':', a non-empty id before it and
\* one or more decimal digits, and nothing else, after it.
IdInteger(s) ==
  /\ Cardinality(ColonsOf(s)) = 1
  /\ \E p \in ColonsOf(s) :
       /\ p > 1 /\ p < Len(s)
       /\ \A i \in (p + 1)..Len(s) : IsDigit(s[i])

\* C34: Dot.fromString accepts exactly the strings of the form id:integer
\* and fails on every other string; for an accepted string s,
\* toString(parse(s)) = s; and for a dot d with a non-empty id and an
\* integer counter, parse(d.toString()) = d.
C34_ParseExact ==
  /\ opOut.op = "parse" =>
       /\ opOut.ok <=> IdInteger(opIn.str)
       /\ opOut.ok => opOut.str = opIn.str
  /\ (opOut.op = "print" /\ opIn.id # <<>>) =>
       /\ opOut.ok
       /\ opOut.dot = Dot(opIn.id, opIn.counter.n)

(***************************************************************************)
(* DeltaHelpers.join (SpecHelpers)                                         *)
(***************************************************************************)
\* What an object with a join method holds: its number, or the content of
\* the kernel its field refers to.
StateOf(heap, v) == IF v.k = "reg" THEN heap[v.n] ELSE Num(v.n)

\* The state of left with right joined into it.
JoinedState(heap, left, right) ==
  IF left.k = "reg" THEN KernelJoin(heap[left.n], heap[right.n])
  ELSE Num(MaxNum(left, right).n)

HandledBy(branch) == {b.dot : b \in {x \in opOut.branches : x.branch = branch}}

\* C36: during join and deepJoin every dot is handled by the branch that
\* matches where it is stored: "only in this" handles exactly the keys of
\* this alone, "only in other" exactly the keys of other alone, and "in
\* both" exactly the keys of both, each time with the same dot on the two
\* sides.
C36_ExactClassification ==
  opOut.op \in {"join", "deepJoin"} =>
    /\ HandledBy("this") = OnlyThisKeys
    /\ HandledBy("other") = OnlyOtherKeys
    /\ HandledBy("both") = BothKeys
    /\ \A b \in opOut.branches : b.branch = "both" => b.with = b.dot

(***************************************************************************)
(* Termination of compact() (SpecPassesFair)                               *)
(***************************************************************************)
\* A pass that reports progress leaves the loop running; it then has
\* removed at least one dot from the cloud.
ProgressRemoves ==
  (opOut.op = "run" /\ opOut'.op = "run") => Len(opOut'.order) < Len(opOut.order)

\* C37: compact() terminates on every finite context: each pass that
\* reports progress removes at least one dot from the cloud, the number of
\* passes is at most the initial cloud size plus one, and the loop stops
\* at the first pass that absorbs nothing.
C37_CompactTerminates ==
  /\ [][ProgressRemoves]_vars
  /\ [](opOut.passes <= Len(opIn.order) + 1)
  /\ [][(opOut'.op = "done") <=> (opOut'.cc = opOut.cc)]_vars
  /\ <>(opOut.op = "done")

\* The loop ended after the most passes a cloud of MaxCloud dots allows.
C37_Witness == opOut.op = "done" /\ opOut.passes = MaxCloud + 1

(***************************************************************************)
(* The argument of a join (Spec)                                           *)
(***************************************************************************)
\* The step is kernels[k].join(kernels[o]) or kernels[k].deepJoin(kernels[o])
\* for two kernels whose sharedContext fields point to different objects.
JoinsOther ==
  /\ last'.n = last.n + 1
  /\ last'.op \in {"join", "deepJoin"}
  /\ kernels[last'.k].shared # kernels[last'.o].shared

\* C38: A.join(B) and A.deepJoin(B), for kernels A and B that do not share
\* a context object, leave B's dataStorage, compact causal context and dot
\* cloud as they were; a delta joined into a kernel is the same delta
\* afterwards.
C38_JoinKeepsArgument ==
  [][/\ JoinsOther =>
          /\ kernels'[last'.o] = kernels[last'.o]
          /\ ctxs'[kernels[last'.o].shared] = ctxs[kernels[last'.o].shared]
     /\ (last'.n = last.n + 1 /\ last'.op = "joinDelta") => last'.ret = last.ret]_vars

\* A join that changed what kernel k stores and what its context holds,
\* from a kernel with another context object.
C38_Witness ==
  /\ last.op \in {"join", "deepJoin"}
  /\ kernels[last.k].shared # kernels[last.o].shared
  /\ kernels[last.k].ds # last.preDs
  /\ CtxOf(last.k) # last.preCtx

(***************************************************************************)
(* A deepJoin that throws (SpecThrow)                                      *)
(***************************************************************************)
\* C39: when A.deepJoin(B) fails because a dot stored by both carries
\* differing payloads that DeltaHelpers.join cannot join, A is left as it
\* was before the call: its dataStorage and its context are unchanged, and
\* every dot it stores is still known to its context.
C39_DeepJoinFailureAtomic ==
  (opOut.op = "deepJoin" /\ ~opOut.ok) =>
    /\ opOut.post.ds = opIn.this.ds
    /\ opOut.post.ctx = opIn.this.ctx
    /\ \A s \in DOMAIN opOut.post.ds : DotIn(opOut.post.ctx, s)

(***************************************************************************)
(* DeltaORSet: add wins (SpecORSet)                                        *)
(***************************************************************************)
\* The delta k is a remove of the item of the add i, built by a replica
\* that had joined the add, itself or through other deltas.
RemovesSeen(k, i) ==
  /\ deltas[k].kind = "remove"
  /\ deltas[k].item = deltas[i].item
  /\ i \in deltas[k].seen

\* C40: an item is in value iff one of its add tags is not among its
\* removed tags; a remove tombstones only tags its replica holds when it
\* is called, so on every replica that has joined an add, the item stays
\* in value as long as no remove that had seen the add has reached the
\* replica, whatever removes concurrent with the add it has joined, in
\* whatever order and however often.
C40_AddWins ==
  \A r \in ORReplicas :
    /\ \A item \in ORItems :
         item \in ORValue(regs[r])
           <=> TagsOf(regs[r].added, item) \ TagsOf(regs[r].removed, item) # {}
    /\ \A i \in applied[r].direct :
         (deltas[i].kind = "add" /\ \A k \in applied[r].past : ~RemovesSeen(k, i))
           => deltas[i].item \in ORValue(regs[r])
    /\ \A k \in 1..Len(deltas) :
         deltas[k].kind = "remove" =>
           \A t \in TagsOf(deltas[k].d.removed, deltas[k].item) :
             t # 0 => (deltas[t].kind = "add" /\ t \in deltas[k].seen)

\* An add and a remove of one item, neither seen by the other, the remove
\* with tags to tombstone; both replicas have joined both deltas, one of
\* them a second time just now, and both have the item in value.
C40_Witness ==
  \E i, j \in 1..Len(deltas) :
    /\ deltas[i].kind = "add" /\ deltas[j].kind = "remove"
    /\ deltas[i].item = deltas[j].item
    /\ i \notin deltas[j].seen /\ j \notin deltas[i].seen
    /\ deltas[j].d.removed # EmptyMap
    /\ \A r \in ORReplicas :
         {i, j} \subseteq applied[r].direct /\ deltas[i].item \in ORValue(regs[r])
    /\ last.op = "join" /\ last.again /\ last.i \in {i, j}

=============================================================================
